---------------------------- MODULE Spec2Model ----------------------------
(***************************************************************************)
(* Storagescope: the traversal engine (src/src/scanner/worker.rs), its     *)
(* bounded event channel, and the consumers that drive it: the tests'      *)
(* receive loops, run_scan_blocking, and App (src/src/app.rs).             *)
(***************************************************************************)
EXTENDS Integers, Sequences, FiniteSets, TLC

(***************************************************************************)
(* Bounds of the model.  QueueCapacity and ProgressEmitEvery stand in for  *)
(* EVENT_QUEUE_CAPACITY (8192) and PROGRESS_EMIT_EVERY (512), and U64Max   *)
(* for u64::MAX, scaled so that a handful of entries fills the queue,      *)
(* triggers periodic progress and saturates a counter.                     *)
(***************************************************************************)
QueueCapacity == 2

ProgressEmitEvery == 2

U64Max == 65535

MaxRescans == 1

MaxEventsPerTick == 2

\* The longest children list of a store that prune_subtree is given.
MaxListLen == 2

MaxDepthOption == 1

\* platform.rs: a unix block is 512 bytes.
BlockSize == 512

(***************************************************************************)
(* u64 arithmetic of the scanner: saturating_add, saturating_mul,          *)
(* saturating_sub.                                                         *)
(***************************************************************************)
saturating_add(a, b) == IF a + b > U64Max THEN U64Max ELSE a + b

saturating_mul(a, b) == IF a * b > U64Max THEN U64Max ELSE a * b

saturating_sub(a, b) == IF a < b THEN 0 ELSE a - b

(***************************************************************************)
(* The filesystem.  A file name is a sequence of characters, a path a      *)
(* sequence of names.  An inode carries what symlink_metadata, metadata,   *)
(* read_dir and canonicalize return for it: kind, len, blocks, dev, the    *)
(* directory entries in read_dir order (err: the iterator yields Err), the *)
(* symlink target (0: dangling), and the faults the calls can raise.       *)
(*   statErr: "never", "always", or "second" (the entry vanishes after     *)
(*   the first symlink_metadata call).                                     *)
(***************************************************************************)
Entry(name, ino) == [name |-> name, ino |-> ino, err |-> FALSE]

ErrEntry == [name |-> <<>>, ino |-> 0, err |-> TRUE]

Inode(kind, len, blocks, dev) ==
    [kind |-> kind, len |-> len, blocks |-> blocks, dev |-> dev,
     entries |-> <<>>, target |-> 0, statErr |-> "never",
     readErr |-> FALSE, canonErr |-> FALSE, removeErr |-> FALSE]

DirInode(len, blocks, dev, entries) ==
    [Inode("dir", len, blocks, dev) EXCEPT !.entries = entries]

LinkInode(len, dev, target) ==
    [Inode("symlink", len, 0, dev) EXCEPT !.target = target]

\* worker.rs tests: visible-dir/deep.bin (128), .hidden.bin (64), visible.bin (32).
FsPlain ==
    << DirInode(40, 1, 1, << Entry(<<"v", "d">>, 2), Entry(<<".", "h">>, 3),
                             Entry(<<"v">>, 4) >>),
       DirInode(40, 1, 1, << Entry(<<"d">>, 5) >>),
       Inode("file", 64, 1, 1),
       Inode("file", 32, 0, 1),
       Inode("file", 128, 1, 1) >>

\* A root that cannot be stat-ed at all.
FsNoRoot == << [DirInode(40, 1, 1, <<>>) EXCEPT !.statErr = "always"] >>

\* A root that vanishes between run_scan's stat and scan_entry's stat.
FsVanishingRoot == << [DirInode(40, 1, 1, <<>>) EXCEPT !.statErr = "second"] >>

\* A root that is a regular file.
FsFileRoot == << Inode("file", 64, 1, 1) >>

\* Symlinks (a cycle back to the root, a dangling link, a link to a file),
\* a mount point, an unreadable directory, an entry that cannot be stat-ed,
\* a failing read_dir item, and a socket.
FsLinks ==
    << DirInode(40, 1, 1, << Entry(<<"m">>, 2), Entry(<<".", "l">>, 3),
                             Entry(<<"x">>, 4), ErrEntry, Entry(<<"u">>, 5),
                             Entry(<<"s">>, 6), Entry(<<"o">>, 7),
                             Entry(<<"k">>, 9) >>),
       DirInode(20, 1, 2, << Entry(<<"f">>, 8) >>),
       LinkInode(1, 1, 1),
       LinkInode(2, 1, 0),
       [DirInode(30, 1, 1, <<>>) EXCEPT !.readErr = TRUE],
       [Inode("file", 7, 1, 1) EXCEPT !.statErr = "always"],
       Inode("other", 0, 0, 1),
       Inode("file", 16, 1, 2),
       LinkInode(3, 1, 8) >>

\* Two sparse files whose sizes add up beyond u64::MAX.
FsHuge ==
    << DirInode(40, 1, 1, << Entry(<<"a">>, 2), Entry(<<"b">>, 3) >>),
       Inode("file", 40000, 100, 1),
       Inode("file", 40000, 100, 1) >>

\* delete.rs tests: a directory d to be the scan root of a delete, with a
\* file g, a symlink e that escapes to the file f beside d, a symlink s back
\* to d, a file p that remove_file, remove_dir and remove_dir_all fail on
\* (removeErr), and an empty directory k.
FsEscape ==
    << DirInode(40, 1, 1, << Entry(<<"d">>, 2), Entry(<<"f">>, 3),
                             Entry(<<"k">>, 8) >>),
       DirInode(40, 1, 1, << Entry(<<"g">>, 4), Entry(<<"e">>, 5),
                             Entry(<<"s">>, 6), Entry(<<"p">>, 7) >>),
       Inode("file", 8, 1, 1),
       Inode("file", 8, 1, 1),
       LinkInode(1, 1, 3),
       LinkInode(1, 1, 2),
       [Inode("file", 8, 1, 1) EXCEPT !.removeErr = TRUE],
       DirInode(40, 1, 1, <<>>) >>

\* A directory d that cannot be removed beside an empty directory k.
FsLocked ==
    << DirInode(40, 1, 1, << Entry(<<"d">>, 2), Entry(<<"k">>, 3) >>),
       [DirInode(40, 1, 1, <<>>) EXCEPT !.removeErr = TRUE],
       DirInode(40, 1, 1, <<>>) >>

\* scan_integration.rs tests: a hidden directory .h with a file x and a
\* directory y (with a file z), a directory a with a hidden file .b, and a
\* mount point m with a file w.
FsHidden ==
    << DirInode(1, 1, 1, << Entry(<<".", "h">>, 2), Entry(<<"a">>, 3),
                            Entry(<<"m">>, 4) >>),
       DirInode(2, 1, 1, << Entry(<<"x">>, 5), Entry(<<"y">>, 6) >>),
       DirInode(4, 1, 1, << Entry(<<".", "b">>, 7) >>),
       DirInode(8, 1, 2, << Entry(<<"w">>, 8) >>),
       Inode("file", 16, 1, 1),
       DirInode(32, 1, 1, << Entry(<<"z">>, 9) >>),
       Inode("file", 64, 0, 1),
       Inode("file", 128, 1, 2),
       Inode("file", 256, 2, 1) >>

\* A directory d with a file f and a symlink s back to d itself, beside two
\* symlinks a and b to d.
FsTwoLinks ==
    << DirInode(40, 1, 1, << Entry(<<"d">>, 2), Entry(<<"a">>, 4),
                             Entry(<<"b">>, 5) >>),
       DirInode(20, 1, 1, << Entry(<<"f">>, 3), Entry(<<"s">>, 6) >>),
       Inode("file", 16, 1, 1),
       LinkInode(1, 1, 2),
       LinkInode(1, 1, 2),
       LinkInode(1, 1, 2) >>

FileSystems ==
    << FsPlain, FsNoRoot, FsVanishingRoot, FsFileRoot, FsLinks, FsHuge, FsEscape,
       FsLocked, FsHidden, FsTwoLinks >>

\* The startup root: inode 1 of every filesystem, at path /r.
RootIno == 1

RootPath == << <<"r">> >>

(***************************************************************************)
(* model.rs                                                                *)
(***************************************************************************)
NoDepth == [some |-> FALSE, val |-> 0]

SomeDepth(d) == [some |-> TRUE, val |-> d]

ScanOptions(ofs, follow, hidden, files, depth) ==
    [root |-> RootPath, one_file_system |-> ofs, follow_symlinks |-> follow,
     show_hidden |-> hidden, show_files |-> files, max_depth |-> depth]

ScanProgress(v, w, a, b) ==
    [visited_entries |-> v, warnings |-> w,
     apparent_bytes_seen |-> a, allocated_bytes_seen |-> b]

ScanProgressDefault == ScanProgress(0, 0, 0, 0)

NodeSummary(path, kind, apparent, allocated, children, complete) ==
    [path |-> path, kind |-> kind, apparent_bytes |-> apparent,
     allocated_bytes |-> allocated, children_count |-> children,
     is_complete |-> complete]

NoNode == NodeSummary(<<>>, "none", 0, 0, 0, FALSE)

NoMessage == [text |-> "", dropped |-> 0, deferred |-> 0, coalesced |-> 0]

Message(text) == [NoMessage EXCEPT !.text = text]

\* ScanEvent: every variant in one record shape.
ScanEvent(type, path, node, progress, message) ==
    [type |-> type, path |-> path, node |-> node, progress |-> progress,
     message |-> message]

Reset(root) == ScanEvent("Reset", root, NoNode, ScanProgressDefault, NoMessage)

NodeUpdated(node) == ScanEvent("NodeUpdated", node.path, node, ScanProgressDefault, NoMessage)

Progress(progress) == ScanEvent("Progress", <<>>, NoNode, progress, NoMessage)

Warning(path, message) == ScanEvent("Warning", path, NoNode, ScanProgressDefault, message)

Complete(progress) == ScanEvent("Complete", <<>>, NoNode, progress, NoMessage)

Error(text) == ScanEvent("Error", <<>>, NoNode, ScanProgressDefault, Message(text))

Cancelled == ScanEvent("Cancelled", <<>>, NoNode, ScanProgressDefault, NoMessage)

TerminalTypes == {"Complete", "Error", "Cancelled"}

CriticalTypes == {"Reset", "Warning"} \cup TerminalTypes


(***************************************************************************)
(* State.                                                                  *)
(*   fsys, options, harness : the filesystem scanned, the ScanOptions, and *)
(*       who runs the scan: "test" (run_scan on a bounded channel with a   *)
(*       receiving thread, as in worker.rs tests), "blocking"              *)
(*       (run_scan_blocking: unbounded channel, collected afterwards) or   *)
(*       "app" (App::start_scan_at / drain_scan_events).                   *)
(*   pc, stack, result, state, outbox, sendPc : the scanner thread: its    *)
(*       place in run_scan, the scan_dir activations, the ScanControl      *)
(*       returned to run_scan, ScannerState, and the sends the current     *)
(*       step still has to perform (sendPc, the position in the send:      *)
(*       "flush" at its start, "try" after try_flush_pending_progress,     *)
(*       "sleep" in the retry loop after a Full).                          *)
(*   chan, rxConnected, cancel : the channel, whether its Receiver is      *)
(*       alive, and the shared cancel flag.                                *)
(*   sent, generated, received, visited : history of the scan: every event *)
(*       enqueued, every critical event handed to a send, every event the  *)
(*       consumer took, every entry counted by a bump_entry.               *)
(*   baseline : run_scan_blocking's first result, kept by the test that    *)
(*       scans the same tree twice.                                        *)
(*   session, alive : the number of scans started, and the scanner threads *)
(*       (by the number of their scan) that were spawned and have not      *)
(*       returned.                                                         *)
(*   appPc, scanner, scan_state, active_scan_root, processed : App: where  *)
(*       its thread is ("idle": between handlers), whether self.scanner    *)
(*       holds a session, the fields of those names, and the counter of    *)
(*       drain_scan_events.                                                *)
(*   nodes, children, current_root : App: the store (path -> NodeSummary,  *)
(*       path -> the paths of its children in arrival order) and the       *)
(*       directory on display.                                             *)
(*   removed, message, disk : the inodes delete_target has removed, the    *)
(*       App's user message, and the filesystem as it is now (the tree     *)
(*       number fsys of the catalogue, without what was removed).          *)
(*   selected_index, filter : App: the fields of those names.              *)
(***************************************************************************)
VARIABLES fsys, options, harness,
          pc, stack, result, state, outbox, sendPc,
          chan, rxConnected, cancel,
          sent, generated, received, visited, baseline,
          session, alive,
          appPc, scanner, scan_state, active_scan_root, processed,
          nodes, children, current_root,
          removed, message, disk,
          selected_index, filter

configVars == <<fsys, options, harness>>

scannerVars == <<pc, stack, result, state, outbox, sendPc>>

channelVars == <<chan, rxConnected, cancel>>

historyVars == <<sent, generated, received, visited>>

threadVars == <<session, alive>>

storeVars == <<nodes, children, current_root>>

deleteVars == <<removed, message, disk>>

viewVars == <<selected_index, filter>>

appVars == <<appPc, scanner, scan_state, active_scan_root, processed, storeVars,
             deleteVars, viewVars>>

vars == <<configVars, scannerVars, channelVars, historyVars, baseline,
          threadVars, appVars>>

\* The filesystem as it is now.
Fs == disk

\* What symlink_metadata, metadata and read_dir return for an inode.
Meta(ino) == Fs[ino]

NoneOpt == [some |-> FALSE, val |-> 0]

SomeOpt(v) == [some |-> TRUE, val |-> v]

NoProgress == [some |-> FALSE, val |-> ScanProgressDefault]

SomeProgress(p) == [some |-> TRUE, val |-> p]

(***************************************************************************)
(* std::fs and platform.rs on the modelled filesystem.                     *)
(***************************************************************************)
\* fs::symlink_metadata fails (nth: which call on this path it is).
symlink_metadata_fails(ino, nth) ==
    \/ Meta(ino).statErr = "always"
    \/ Meta(ino).statErr = "second" /\ nth >= 2

RECURSIVE FollowLinks(_, _)
FollowLinks(ino, fuel) ==
    IF ino = 0 \/ fuel = 0 THEN 0
    ELSE IF Meta(ino).kind = "symlink" THEN FollowLinks(Meta(ino).target, fuel - 1)
    ELSE ino

\* fs::metadata: the inode a path resolves to, 0 when resolution fails.
metadata(ino) == FollowLinks(ino, Len(Fs))

\* The inode `names` lead to from the directory `ino`, 0 when there is none.
RECURSIVE Walk(_, _)
Walk(ino, names) ==
    IF names = <<>> THEN ino
    ELSE LET dir == metadata(ino)
             es == IF dir = 0 THEN <<>> ELSE Meta(dir).entries
             hits == { i \in DOMAIN es : ~es[i].err /\ es[i].name = Head(names) }
         IN  IF hits = {} THEN 0
             ELSE Walk(es[CHOOSE i \in hits : TRUE].ino, Tail(names))

\* The inode at options.root, 0 when the path does not exist.
ScanRootIno ==
    LET root == options.root
    IN  IF Len(root) >= Len(RootPath) /\ SubSeq(root, 1, Len(RootPath)) = RootPath
        THEN Walk(RootIno, SubSeq(root, Len(RootPath) + 1, Len(root)))
        ELSE 0

\* The inode at `path`, 0 when there is none.
InoAt(path) == Walk(RootIno, SubSeq(path, Len(RootPath) + 1, Len(path)))

\* The inodes below the directory `dir`, symlinks not followed.
RECURSIVE Below(_)
Below(dir) ==
    LET es == Meta(dir).entries
        kids == { es[i].ino : i \in { j \in DOMAIN es : ~es[j].err } }
    IN  kids \cup UNION { Below(k) : k \in { x \in kids : Meta(x).kind = "dir" } }

allocated_size(meta) ==
    IF meta.blocks > 0 THEN saturating_mul(meta.blocks, BlockSize) ELSE meta.len

filesystem_id(meta) == SomeOpt(meta.dev)

\* Fault for HiddenBelowRootNotShown: no name counts as hidden.
is_hidden_never(name) == FALSE

is_hidden(name) == Len(name) > 0 /\ name[1] = "."

kind_from_non_dir(meta, is_symlink) ==
    IF is_symlink THEN "symlink"
    ELSE IF meta.kind = "file" THEN "file"
    ELSE "other"

DirKind(is_symlink_dir) == IF is_symlink_dir THEN "symlink" ELSE "dir"

(***************************************************************************)
(* ScannerState and the operations that only touch it.  A step of the      *)
(* scanner works on a context [st, out]: the ScannerState and the sends    *)
(* the step has issued so far, in order; the sends are then carried out    *)
(* one channel operation at a time (FlushPendingProgress, TrySend).        *)
(***************************************************************************)
ScannerStateInit(root_fs) ==
    [progress |-> ScanProgressDefault,
     root_fs |-> root_fs,
     emitted_progress_entries |-> 0,
     visited_symlink_dirs |-> {},
     pending_progress |-> NoProgress,
     dropped_node_updates |-> 0,
     deferred_progress_updates |-> 0,
     coalesced_progress_updates |-> 0,
     backpressure_warning_emitted |-> FALSE,
     channel_closed |-> FALSE]

Req(critical, event) == [critical |-> critical, event |-> event]

Ctx(st) == [st |-> st, out |-> <<>>, visits |-> <<>>]

\* History: the entry at `path` is counted (a bump_entry is made for it).
Visit(c, path, apparent, allocated) ==
    [c EXCEPT !.visits = Append(@, [path |-> path, apparent |-> apparent,
                                    allocated |-> allocated])]

\* Fault for CancelObserved: the cancel flag is not read.
should_cancel_ignoring_flag == state.channel_closed

\* Fault for ReceiverDropNoticed: channel_closed is not looked at.
should_cancel_ignoring_closed == cancel

should_cancel == state.channel_closed \/ cancel

send_critical(c, event) == [c EXCEPT !.out = Append(@, Req(TRUE, event))]

send_noncritical(c, event) == [c EXCEPT !.out = Append(@, Req(FALSE, event))]

\* Fault for ChildrenBeforeFinal: every update is sent as a complete one.
send_node_update_complete(c, summary) ==
    send_noncritical(c, NodeUpdated([summary EXCEPT !.is_complete = TRUE]))

send_node_update(c, summary) == send_noncritical(c, NodeUpdated(summary))

\* Fault for FaultsAreWarnings: a fault is reported and counted twice.
bump_warning_twice(c, path, text) ==
    LET w == Warning(path, Message(text))
    IN  send_critical(send_critical(
            [c EXCEPT !.st.progress.warnings = saturating_add(@, 2)], w), w)

bump_warning(c, path, text) ==
    send_critical([c EXCEPT !.st.progress.warnings = saturating_add(@, 1)],
                  Warning(path, Message(text)))

\* Fault for CompleteCountsContributors: the entry is not counted, only its
\* bytes are.
bump_entry_bytes_only(c, apparent, allocated) ==
    [c EXCEPT !.st.progress.apparent_bytes_seen = saturating_add(@, apparent),
              !.st.progress.allocated_bytes_seen = saturating_add(@, allocated)]

bump_entry(c, apparent, allocated) ==
    LET p == [c.st.progress EXCEPT
                 !.visited_entries = saturating_add(@, 1),
                 !.apparent_bytes_seen = saturating_add(@, apparent),
                 !.allocated_bytes_seen = saturating_add(@, allocated)]
        c1 == [c EXCEPT !.st.progress = p]
    IN  IF saturating_sub(p.visited_entries, c.st.emitted_progress_entries)
              >= ProgressEmitEvery
        THEN send_noncritical(
                 [c1 EXCEPT !.st.emitted_progress_entries = p.visited_entries],
                 Progress(p))
        ELSE c1

emit_progress_now(c) ==
    send_noncritical(
        [c EXCEPT !.st.emitted_progress_entries = c.st.progress.visited_entries],
        Progress(c.st.progress))

emit_backpressure_warning_if_needed(c) ==
    IF c.st.backpressure_warning_emitted \/ c.st.channel_closed THEN c
    ELSE IF c.st.dropped_node_updates = 0 /\ c.st.deferred_progress_updates = 0 THEN c
    ELSE send_critical(
             [c EXCEPT !.st.backpressure_warning_emitted = TRUE,
                       !.st.progress.warnings = saturating_add(@, 1)],
             Warning(options.root,
                     [text |-> "scanner backpressure",
                      dropped |-> c.st.dropped_node_updates,
                      deferred |-> c.st.deferred_progress_updates,
                      coalesced |-> c.st.coalesced_progress_updates]))

\* Fault for BackpressureAccounted: a dropped NodeUpdated is not counted.
handle_noncritical_backpressure_uncounted(st, event) ==
    IF event.type = "NodeUpdated"
    THEN st
    ELSE [st EXCEPT
             !.deferred_progress_updates = saturating_add(@, 1),
             !.coalesced_progress_updates =
                 IF st.pending_progress.some THEN saturating_add(@, 1) ELSE @,
             !.pending_progress = SomeProgress(event.progress)]

handle_noncritical_backpressure(st, event) ==
    IF event.type = "NodeUpdated"
    THEN [st EXCEPT !.dropped_node_updates = saturating_add(@, 1)]
    ELSE [st EXCEPT
             !.deferred_progress_updates = saturating_add(@, 1),
             !.coalesced_progress_updates =
                 IF st.pending_progress.some THEN saturating_add(@, 1) ELSE @,
             !.pending_progress = SomeProgress(event.progress)]

\* Fault for DisplayIndependent: an entry that is not shown is not counted.
summarize_non_dir_shown_only(c, path, kind, meta, emit_node_update) ==
    LET apparent == meta.len
        allocated == allocated_size(meta)
        c1 == bump_entry(Visit(c, path, apparent, allocated), apparent, allocated)
        summary == NodeSummary(path, kind, apparent, allocated, 0, TRUE)
    IN  IF emit_node_update
        THEN [ctx |-> send_node_update(c1, summary), summary |-> summary]
        ELSE [ctx |-> c, summary |-> NodeSummary(path, kind, 0, 0, 0, TRUE)]

\* summarize_non_dir: the context after it, and the summary it returns.
summarize_non_dir(c, path, kind, meta, emit_node_update) ==
    LET apparent == meta.len
        allocated == allocated_size(meta)
        c1 == bump_entry(Visit(c, path, apparent, allocated), apparent, allocated)
        summary == NodeSummary(path, kind, apparent, allocated, 0, TRUE)
    IN  [ctx |-> IF emit_node_update THEN send_node_update(c1, summary) ELSE c1,
         summary |-> summary]


(***************************************************************************)
(* scan_dir.  An activation of scan_dir is a frame: its arguments (path,   *)
(* the inode `metadata` describes, depth, is_symlink_dir, emit_initial,    *)
(* emit_updates), the read_dir position idx, the running totals and the    *)
(* pending_dirs still to be recursed into.  phase "enter": called, the     *)
(* first should_cancel not yet evaluated.                                  *)
(***************************************************************************)
Frame(path, ino, depth, is_symlink_dir, emit_initial, emit_updates) ==
    [path |-> path, ino |-> ino, depth |-> depth,
     is_symlink_dir |-> is_symlink_dir, emit_initial |-> emit_initial,
     emit_updates |-> emit_updates, phase |-> "enter", idx |-> 1,
     apparent_total |-> 0, allocated_total |-> 0, children_count |-> 0,
     pending_dirs |-> <<>>]

PendingDir(path, is_symlink_dir, ino, emitted_initial, emit_updates) ==
    [path |-> path, is_symlink_dir |-> is_symlink_dir, ino |-> ino,
     emitted_initial |-> emitted_initial, emit_updates |-> emit_updates]

\* Fault for DirUpdatesOrdered: scan_dir is told to emit the provisional
\* update whether or not the loop of the parent has emitted it.
PendingFrameInitialAgain(pending, depth) ==
    Frame(pending.path, pending.ino, depth + 1, pending.is_symlink_dir,
          TRUE, pending.emit_updates)

\* The call scan_dir(&pending.path, depth + 1, ...) of the second loop.
PendingFrame(pending, depth) ==
    Frame(pending.path, pending.ino, depth + 1, pending.is_symlink_dir,
          ~pending.emitted_initial, pending.emit_updates)

Opened(c, fr) == [ctx |-> c, outcome |-> "open", frame |-> fr, summary |-> NoNode]

Returned(c, fr, outcome, summary) ==
    [ctx |-> c, outcome |-> outcome, frame |-> fr, summary |-> summary]

\* Fault for SymlinkCycleCut: every symlinked directory is taken for a repeat.
symlink_cycle_at_once(c, fr) == TRUE

\* !state.visited_symlink_dirs.insert(canonical): the canonical directory (the
\* inode the symlink resolves to) is in the set already.
symlink_cycle(c, fr) == fr.ino \in c.st.visited_symlink_dirs

\* scan_dir from the cycle check to the creation of the read_dir iterator.
\* outcome "open": the loop over the entries starts; "none" / "some": scan_dir
\* returned Continue(None) / Continue(Some(summary)).
scan_dir_open(c, fr) ==
    LET meta == Meta(fr.ino)
        dir_apparent == meta.len
        dir_allocated == allocated_size(meta)
        kind == DirKind(fr.is_symlink_dir)
        c1 == IF fr.is_symlink_dir
              THEN [c EXCEPT !.st.visited_symlink_dirs = @ \cup {fr.ino}]
              ELSE c
        c2 == IF fr.emit_initial /\ fr.emit_updates
              THEN send_node_update(c1, NodeSummary(fr.path, kind, dir_apparent,
                                                    dir_allocated, 0, FALSE))
              ELSE c1
        failed == NodeSummary(fr.path, kind, dir_apparent, dir_allocated, 0, TRUE)
        c3 == bump_entry(Visit(bump_warning(c2, fr.path, "cannot read directory"),
                               fr.path, dir_apparent, dir_allocated),
                         failed.apparent_bytes, failed.allocated_bytes)
    IN  IF fr.is_symlink_dir /\ meta.canonErr
        THEN Returned(bump_warning(c, fr.path, "cannot canonicalize symlink dir"),
                      fr, "none", NoNode)
        ELSE IF fr.is_symlink_dir /\ symlink_cycle(c, fr)
        THEN Returned(bump_warning(c, fr.path,
                                   "detected symlink cycle, skipping traversal"),
                      fr, "none", NoNode)
        ELSE IF meta.readErr
        THEN Returned(IF fr.emit_updates THEN send_node_update(c3, failed) ELSE c3,
                      fr, "some", failed)
        ELSE Opened(c2, [fr EXCEPT !.phase = "entries",
                                   !.apparent_total = dir_apparent,
                                   !.allocated_total = dir_allocated])

\* Fault for RootTotalsSaturatingSum: the allocated bytes of a child are left
\* out of the totals of its parent.
AddChildApparentOnly(fr, child) ==
    [fr EXCEPT !.children_count = saturating_add(@, 1),
               !.apparent_total = saturating_add(@, child.apparent_bytes)]

\* A counted child: children_count and the totals of the frame grow.
AddChild(fr, child) ==
    [fr EXCEPT !.children_count = saturating_add(@, 1),
               !.apparent_total = saturating_add(@, child.apparent_bytes),
               !.allocated_total = saturating_add(@, child.allocated_bytes)]

\* Fault for DepthGatesEmission: max_depth is not looked at.
within_display_depth_always(child_depth) == TRUE

\* scan_dir: !matches!(max_depth, Some(max_depth) if child_depth > max_depth).
within_display_depth(child_depth) ==
    ~(options.max_depth.some /\ child_depth > options.max_depth.val)

\* Fault for MountFence: no directory is taken for a mount point.
on_other_filesystem_never(st, meta) == FALSE

\* scan_dir: the directory `meta` is on another filesystem than the root and
\* one_file_system is on.
on_other_filesystem(st, meta) ==
    /\ options.one_file_system
    /\ meta.kind = "dir"
    /\ st.root_fs.some
    /\ filesystem_id(meta).some
    /\ st.root_fs.val # filesystem_id(meta).val

\* One iteration of `for entry_result in read_dir`, after its should_cancel.
scan_dir_entry(c, fr, e) ==
    LET child_path == Append(fr.path, e.name)
        child_depth == fr.depth + 1
        show_hidden == options.show_hidden \/ ~is_hidden(e.name)
        child_emit_updates ==
            fr.emit_updates /\ show_hidden /\ within_display_depth(child_depth)
        next == [fr EXCEPT !.idx = @ + 1]
    IN  IF e.err
        THEN Opened(bump_warning(c, fr.path, "cannot read entry"), next)
        ELSE IF symlink_metadata_fails(e.ino, 1)
        THEN Opened(bump_warning(c, child_path, "cannot stat path"), next)
        ELSE
        LET child_symlink_meta == Meta(e.ino)
            child_is_symlink == child_symlink_meta.kind = "symlink"
            resolved == IF child_is_symlink THEN metadata(e.ino) ELSE e.ino
        IN  IF child_is_symlink /\ ~options.follow_symlinks
            THEN LET r == summarize_non_dir(c, child_path, "symlink",
                              child_symlink_meta,
                              child_emit_updates /\ options.show_files)
                 IN  Opened(r.ctx, AddChild(next, r.summary))
            ELSE IF resolved = 0
            THEN Opened(bump_warning(c, child_path, "cannot follow symlink target"),
                        next)
            ELSE
            LET child_resolved_meta == Meta(resolved)
            IN  IF on_other_filesystem(c.st, child_resolved_meta)
                THEN Opened(c, next)
                ELSE IF child_resolved_meta.kind = "dir"
                THEN LET emitted_initial == ~(child_is_symlink \/ ~child_emit_updates)
                         c1 == IF emitted_initial
                               THEN send_node_update(c,
                                        NodeSummary(child_path, "dir",
                                            child_resolved_meta.len,
                                            allocated_size(child_resolved_meta),
                                            0, FALSE))
                               ELSE c
                     IN  Opened(c1,
                             [next EXCEPT !.pending_dirs =
                                 Append(@, PendingDir(child_path, child_is_symlink,
                                                      resolved, emitted_initial,
                                                      child_emit_updates))])
                ELSE LET r == summarize_non_dir(c, child_path,
                                  kind_from_non_dir(child_resolved_meta,
                                                    child_is_symlink),
                                  child_resolved_meta,
                                  child_emit_updates /\ options.show_files)
                     IN  Opened(r.ctx, AddChild(next, r.summary))

\* scan_dir after both loops: the final summary, bump_entry, the final update.
scan_dir_finish(c, fr) ==
    LET meta == Meta(fr.ino)
        summary == NodeSummary(fr.path, DirKind(fr.is_symlink_dir),
                               fr.apparent_total, fr.allocated_total,
                               fr.children_count, TRUE)
        c1 == bump_entry(Visit(c, fr.path, meta.len, allocated_size(meta)),
                         meta.len, allocated_size(meta))
    IN  Returned(IF fr.emit_updates THEN send_node_update(c1, summary) ELSE c1,
                 fr, "some", summary)

\* scan_entry(&options.root, 0, state) after its should_cancel: either it
\* returns Continue (outcome "none" / "some") or it calls scan_dir ("open").
scan_entry(c, path, ino) ==
    IF symlink_metadata_fails(ino, 2)
    THEN Returned(bump_warning(c, path, "cannot stat path"), NoNode, "none", NoNode)
    ELSE
    LET symlink_meta == Meta(ino)
        is_symlink == symlink_meta.kind = "symlink"
        resolved == IF is_symlink THEN metadata(ino) ELSE ino
    IN  IF is_symlink /\ ~options.follow_symlinks
        THEN LET r == summarize_non_dir(c, path, "symlink", symlink_meta,
                                        options.show_files)
             IN  Returned(r.ctx, NoNode, "some", r.summary)
        ELSE IF resolved = 0
        THEN Returned(bump_warning(c, path, "cannot follow symlink target"),
                      NoNode, "none", NoNode)
        ELSE IF Meta(resolved).kind = "dir"
        THEN Opened(c, Frame(path, resolved, 0, is_symlink, TRUE, TRUE))
        ELSE LET r == summarize_non_dir(c, path,
                          kind_from_non_dir(Meta(resolved), is_symlink),
                          Meta(resolved), options.show_files)
             IN  Returned(r.ctx, NoNode, "some", r.summary)


(***************************************************************************)
(* The scanner thread: run_scan.                                           *)
(*   pc = "unborn"     no thread yet (App before its first start_scan_at)  *)
(*        "start"      about to send Reset                                 *)
(*        "stat_root"  Reset sent (or the receiver found gone)             *)
(*        "scan_entry" about to call scan_entry(&options.root, 0, ..)      *)
(*        "scan_dir"   inside scan_dir, the frames are in `stack`          *)
(*        "finish"     scan_entry has returned `result`                    *)
(*        "return"     the last sends of run_scan are under way            *)
(*        "exited"     run_scan has returned                               *)
(* A step of the traversal is enabled once the sends of the previous step  *)
(* are done (outbox empty).                                                *)
(***************************************************************************)
Crits(reqs) == SelectSeq(reqs, LAMBDA r : r.critical)

Events(reqs) == [i \in 1..Len(reqs) |-> reqs[i].event]

\* The effect of a traversal step: its context, the frames, where it leaves
\* run_scan.  Sends issued once channel_closed is set return at once.
Commit(c, stk, npc, res) ==
    /\ state' = c.st
    /\ outbox' = IF c.st.channel_closed THEN <<>> ELSE c.out
    /\ generated' = generated \o Events(Crits(outbox'))
    /\ visited' = visited \o c.visits
    /\ stack' = stk
    /\ pc' = npc
    /\ result' = res
    /\ sendPc' = "flush"
    /\ UNCHANGED <<configVars, channelVars, sent, received, baseline,
                   threadVars, appVars>>

\* run_scan: send_critical_event(&tx, Reset).
RunScanStart ==
    /\ pc = "start"
    /\ Commit(send_critical(Ctx(state), Reset(options.root)), <<>>, "stat_root", "none")

\* run_scan: return if Reset met a dropped receiver; stat the root (Error and
\* return on failure); build ScannerState.
RunScanStatRoot ==
    /\ pc = "stat_root"
    /\ outbox = <<>>
    /\ IF state.channel_closed
       THEN Commit(Ctx(state), <<>>, "return", "none")
       ELSE IF ScanRootIno = 0 \/ symlink_metadata_fails(ScanRootIno, 1)
       THEN Commit(send_critical(Ctx(state), Error("failed to stat")),
                   <<>>, "return", "none")
       ELSE Commit(Ctx(ScannerStateInit(
                       IF options.one_file_system
                       THEN filesystem_id(Meta(ScanRootIno)) ELSE NoneOpt)),
                   <<>>, "scan_entry", "none")

\* Fault for CompleteMeansTraversed: the directory that is cut short sends
\* its summary as a final one.
UnwindCompleting ==
    Commit(IF stack = <<>> THEN Ctx(state)
           ELSE send_node_update(Ctx(state),
                    NodeSummary(stack[Len(stack)].path, "dir",
                                stack[Len(stack)].apparent_total,
                                stack[Len(stack)].allocated_total,
                                stack[Len(stack)].children_count, TRUE)),
           <<>>, "finish", "cancelled")

\* A ScanControl::Cancelled return unwinds every activation without a send.
Unwind == Commit(Ctx(state), <<>>, "finish", "cancelled")

\* Fault for RepeatedCanonicalSkipped: a Continue(None) is counted as a child.
ReturnToCountingNone(c, base, outcome, summary) ==
    IF base = <<>>
    THEN Commit(c, <<>>, "finish", "continue")
    ELSE Commit(c, [base EXCEPT ![Len(base)] = AddChild(@, summary)],
                "scan_dir", "none")

\* A scan_dir activation returns to its caller: the second loop of the parent
\* adds a Some(child); with no parent, scan_entry returns to run_scan.
ReturnTo(c, base, outcome, summary) ==
    IF base = <<>>
    THEN Commit(c, <<>>, "finish", "continue")
    ELSE Commit(c,
                [base EXCEPT ![Len(base)] =
                    IF outcome = "some" THEN AddChild(@, summary) ELSE @],
                "scan_dir", "none")

\* scan_entry for the root (depth 0: the mount fence does not apply).
ScanEntry ==
    /\ pc = "scan_entry"
    /\ outbox = <<>>
    /\ IF should_cancel
       THEN Unwind
       ELSE LET r == scan_entry(Ctx(state), options.root, ScanRootIno)
            IN  IF r.outcome = "open"
                THEN Commit(r.ctx, <<r.frame>>, "scan_dir", "none")
                ELSE ReturnTo(r.ctx, <<>>, r.outcome, r.summary)

Top == stack[Len(stack)]

Pop(stk) == SubSeq(stk, 1, Len(stk) - 1)

EntriesLeft(fr) == fr.phase = "entries" /\ fr.idx <= Len(Meta(fr.ino).entries)

\* scan_dir is entered: by scan_entry for the root, or by the second loop of
\* the activation on top for its next pending directory.
ScanDirEnter ==
    /\ pc = "scan_dir"
    /\ outbox = <<>>
    /\ \/ Top.phase = "enter"
       \/ Top.phase = "entries" /\ ~EntriesLeft(Top) /\ Top.pending_dirs # <<>>
    /\ LET callee == IF Top.phase = "enter" THEN Top
                     ELSE PendingFrame(Head(Top.pending_dirs), Top.depth)
           base == IF Top.phase = "enter" THEN Pop(stack)
                   ELSE [stack EXCEPT ![Len(stack)].pending_dirs = Tail(@)]
       IN  IF should_cancel
           THEN Unwind
           ELSE LET r == scan_dir_open(Ctx(state), callee)
                IN  IF r.outcome = "open"
                    THEN Commit(r.ctx, Append(base, r.frame), "scan_dir", "none")
                    ELSE ReturnTo(r.ctx, base, r.outcome, r.summary)

\* One iteration of the first loop of scan_dir.
ScanDirEntry ==
    /\ pc = "scan_dir"
    /\ outbox = <<>>
    /\ EntriesLeft(Top)
    /\ IF should_cancel
       THEN Unwind
       ELSE LET r == scan_dir_entry(Ctx(state), Top, Meta(Top.ino).entries[Top.idx])
            IN  Commit(r.ctx, [stack EXCEPT ![Len(stack)] = r.frame],
                       "scan_dir", "none")

\* Both loops of scan_dir are over.
ScanDirFinish ==
    /\ pc = "scan_dir"
    /\ outbox = <<>>
    /\ Top.phase = "entries" /\ ~EntriesLeft(Top) /\ Top.pending_dirs = <<>>
    /\ LET r == scan_dir_finish(Ctx(state), Top)
       IN  ReturnTo(r.ctx, Pop(stack), r.outcome, r.summary)

\* Fault for EventStreamShape: run_scan with Complete sent before the final
\* Progress.
run_scan_finish_complete_first(c, res) ==
    IF res = "continue"
    THEN LET c1 == emit_backpressure_warning_if_needed(c)
         IN  emit_progress_now(send_critical(c1, Complete(c1.st.progress)))
    ELSE send_critical(emit_backpressure_warning_if_needed(c), Cancelled)

\* The sends of run_scan after scan_entry returned.
run_scan_finish(c, res) ==
    IF res = "continue"
    THEN LET c1 == emit_progress_now(emit_backpressure_warning_if_needed(c))
         IN  send_critical(c1, Complete(c1.st.progress))
    ELSE send_critical(emit_backpressure_warning_if_needed(c), Cancelled)

RunScanFinish ==
    /\ pc = "finish"
    /\ outbox = <<>>
    /\ Commit(run_scan_finish(Ctx(state), result), <<>>, "return", result)

\* run_scan returns: the thread (if it is one) ends, the Sender is dropped.
RunScanReturn ==
    /\ pc = "return"
    /\ outbox = <<>>
    /\ pc' = "exited"
    /\ alive' = alive \ {session}
    /\ UNCHANGED <<configVars, stack, result, state, outbox, sendPc, channelVars,
                   historyVars, baseline, session, appVars>>

(***************************************************************************)
(* The channel.  crossbeam's try_send on a bounded(cap) / unbounded        *)
(* channel: Disconnected once the Receiver is dropped, Full at capacity.   *)
(***************************************************************************)
Bounded == harness # "blocking"

try_send(queue, connected) ==
    IF ~connected THEN "Disconnected"
    ELSE IF Bounded /\ Len(queue) >= QueueCapacity THEN "Full"
    ELSE "Ok"

\* try_flush_pending_progress with a pending snapshot, as the first thing
\* send_critical / send_noncritical do, and after each sleep of the retry loop.
\* Whatever the flush met, the caller goes on to the try_send of its event.
FlushPendingProgress ==
    /\ outbox # <<>>
    /\ sendPc \in {"flush", "sleep"}
    /\ state.pending_progress.some
    /\ LET res == try_send(chan, rxConnected)
           pending == Progress(state.pending_progress.val)
       IN  /\ chan' = IF res = "Ok" THEN Append(chan, pending) ELSE chan
           /\ sent' = IF res = "Ok" THEN Append(sent, pending) ELSE sent
           /\ state' = IF res = "Full" THEN state
                       ELSE [state EXCEPT !.pending_progress = NoProgress,
                                          !.channel_closed = (res = "Disconnected")]
           /\ sendPc' = "try"
    /\ UNCHANGED <<configVars, pc, stack, result, outbox, rxConnected, cancel,
                   generated, received, visited, baseline, threadVars, appVars>>

\* Fault for NoncriticalNeverAwaited: every event is kept for a retry on Full.
KeptOnFullAlways(req) == TRUE

\* Fault for CriticalEnqueuedInOrder: no event is kept for a retry on Full.
KeptOnFullNever(req) == FALSE

\* What a send does with its event when try_send says Full: a critical event
\* is kept for the retry, a noncritical one goes to
\* handle_noncritical_backpressure.
KeptOnFull(req) == req.critical

\* The try_send of send_critical's loop, of send_critical_event's loop and of
\* send_noncritical, on the first send still to be done.
TrySend ==
    /\ outbox # <<>>
    /\ sendPc = "try" \/ ~state.pending_progress.some
    /\ LET req == Head(outbox)
           res == try_send(chan, rxConnected)
       IN  /\ chan' = IF res = "Ok" THEN Append(chan, req.event) ELSE chan
           /\ sent' = IF res = "Ok" THEN Append(sent, req.event) ELSE sent
           /\ state' =
                CASE res = "Ok" -> state
                  [] res = "Disconnected" -> [state EXCEPT !.channel_closed = TRUE]
                  [] res = "Full" ->
                        IF KeptOnFull(req) THEN state
                        ELSE handle_noncritical_backpressure(state, req.event)
           /\ outbox' =
                CASE res = "Ok" -> Tail(outbox)
                  [] res = "Disconnected" -> <<>>
                  [] res = "Full" -> IF KeptOnFull(req) THEN outbox ELSE Tail(outbox)
           /\ sendPc' = IF res = "Full" /\ KeptOnFull(req) THEN "sleep" ELSE "flush"
    /\ UNCHANGED <<configVars, pc, stack, result, rxConnected, cancel,
                   generated, received, visited, baseline, threadVars, appVars>>

Scanner ==
    \/ RunScanStart
    \/ RunScanStatRoot
    \/ ScanEntry
    \/ ScanDirEnter
    \/ ScanDirEntry
    \/ ScanDirFinish
    \/ RunScanFinish
    \/ RunScanReturn
    \/ FlushPendingProgress
    \/ TrySend


(***************************************************************************)
(* The consumers of the tests: a thread that receives from the bounded     *)
(* channel, stores the cancel flag, or drops the Receiver; and             *)
(* run_scan_blocking, which collects the events once run_scan returned.    *)
(***************************************************************************)
\* rx.recv_timeout(..) returning Ok(event).
Recv ==
    /\ harness = "test"
    /\ rxConnected
    /\ chan # <<>>
    /\ received' = Append(received, Head(chan))
    /\ chan' = Tail(chan)
    /\ UNCHANGED <<configVars, scannerVars, rxConnected, cancel, sent, generated,
                   visited, baseline, threadVars, appVars>>

\* cancel.store(true, Ordering::Release).
CancelSignal ==
    /\ harness = "test"
    /\ ~cancel
    /\ cancel' = TRUE
    /\ UNCHANGED <<configVars, scannerVars, chan, rxConnected, historyVars,
                   baseline, threadVars, appVars>>

\* The receiving thread ends while the scanner runs: rx is dropped, and the
\* events still queued with it.
DropReceiver ==
    /\ harness = "test"
    /\ rxConnected
    /\ pc # "exited"
    /\ rxConnected' = FALSE
    /\ chan' = <<>>
    /\ UNCHANGED <<configVars, scannerVars, cancel, historyVars, baseline,
                   threadVars, appVars>>

\* run_scan_blocking: rx.try_iter().collect() after run_scan returned.
Collect ==
    /\ harness = "blocking"
    /\ pc = "exited"
    /\ chan # <<>>
    /\ received' = received \o chan
    /\ chan' = <<>>
    /\ UNCHANGED <<configVars, scannerVars, rxConnected, cancel, sent, generated,
                   visited, baseline, threadVars, appVars>>

DisplayOptions ==
    { ScanOptions(options.one_file_system, options.follow_symlinks, h, f, d) :
        h \in BOOLEAN, f \in BOOLEAN,
        d \in {NoDepth} \cup { SomeDepth(n) : n \in 0..MaxDepthOption } }

NoBaseline == [some |-> FALSE, events |-> <<>>]

\* tests::parent_totals_include_hidden_and_depth_suppressed_entries: a second
\* run_scan_blocking of the same tree with other display options.
RunSecondScan ==
    /\ harness = "blocking"
    /\ pc = "exited"
    /\ chan = <<>>
    /\ ~baseline.some
    /\ baseline' = [some |-> TRUE, events |-> received]
    /\ options' \in DisplayOptions
    /\ pc' = "start"
    /\ stack' = <<>>
    /\ result' = "none"
    /\ state' = ScannerStateInit(NoneOpt)
    /\ outbox' = <<>>
    /\ sendPc' = "flush"
    /\ sent' = <<>>
    /\ generated' = <<>>
    /\ received' = <<>>
    /\ visited' = <<>>
    /\ UNCHANGED <<fsys, harness, channelVars, threadVars, appVars>>

(***************************************************************************)
(* App (app.rs): start_scan_at and drain_scan_events.                      *)
(***************************************************************************)
ScanState(tag, progress) == [tag |-> tag, progress |-> progress]

NoPath == [some |-> FALSE, val |-> <<>>]

\* A message about a path: "Deleted {path}", or AppError::Delete's
\* "delete error for {path}: {reason}".
Text(path, text) == [path |-> path, text |-> text]

NoText == [some |-> FALSE, val |-> Text(<<>>, "")]

SomeText(text) == [some |-> TRUE, val |-> text]

SomePath(path) == [some |-> TRUE, val |-> path]

\* Path::parent.
parent(path) == SubSeq(path, 1, Len(path) - 1)

in_subtree(path, root) ==
    Len(path) >= Len(root) /\ SubSeq(path, 1, Len(root)) = root

\* The two maps of the App.
Store(n, c) == [nodes |-> n, children |-> c]

\* Fault for StartScanPrunesFirst: nothing is pruned.
prune_subtree_nothing(store, root) == store

\* Fault for PruneRemovesSubtree: only the root itself is pruned.
prune_subtree_root_only(store, root) ==
    Store([p \in DOMAIN store.nodes \ {root} |-> store.nodes[p]],
          [p \in DOMAIN store.children \ {root} |->
              SelectSeq(store.children[p], LAMBDA q : q # root)])

\* Fault for ChildrenAreNodes: the children lists are left as they are.
prune_subtree_nodes_only(store, root) ==
    LET to_remove == { p \in DOMAIN store.nodes : in_subtree(p, root) }
    IN  Store([p \in DOMAIN store.nodes \ to_remove |-> store.nodes[p]],
              [p \in DOMAIN store.children \ to_remove |-> store.children[p]])

prune_subtree(store, root) ==
    LET to_remove == { p \in DOMAIN store.nodes : in_subtree(p, root) }
    IN  Store([p \in DOMAIN store.nodes \ to_remove |-> store.nodes[p]],
              [p \in DOMAIN store.children \ to_remove |->
                  SelectSeq(store.children[p], LAMBDA q : ~in_subtree(q, root))])

\* Fault for ChildrenListsExact: the path is pushed on every update.
upsert_node_always_pushes(store, node) ==
    LET path == node.path
        inserted == [p \in DOMAIN store.nodes \cup {path} |->
                        IF p = path THEN node ELSE store.nodes[p]]
        parent_path == parent(path)
        siblings == IF parent_path \in DOMAIN store.children
                    THEN store.children[parent_path] ELSE <<>>
    IN  Store(inserted,
              [p \in DOMAIN store.children \cup {parent_path} |->
                  IF p = parent_path THEN Append(siblings, path)
                  ELSE store.children[p]])

upsert_node(store, node) ==
    LET path == node.path
        is_new == path \notin DOMAIN store.nodes
        inserted == [p \in DOMAIN store.nodes \cup {path} |->
                        IF p = path THEN node ELSE store.nodes[p]]
        parent_path == parent(path)
        siblings == IF parent_path \in DOMAIN store.children
                    THEN store.children[parent_path] ELSE <<>>
    IN  IF is_new /\ path # <<>>
        THEN Store(inserted,
                   [p \in DOMAIN store.children \cup {parent_path} |->
                       IF p = parent_path THEN Append(siblings, path)
                       ELSE store.children[p]])
        ELSE Store(inserted, store.children)

\* str::to_lowercase on the letters a filter is typed with.
to_lowercase(text) == [i \in DOMAIN text |-> IF text[i] = "D" THEN "d" ELSE text[i]]

\* str::contains.
contains(text, pattern) ==
    \E i \in 0..(Len(text) - Len(pattern)) :
        SubSeq(text, i + 1, i + Len(pattern)) = pattern

\* name.contains(&filter) || full_path.contains(&filter): a filter holds no
\* separator, so it is found in the full path when a component holds it.
matches_filter(path, flt) ==
    \E c \in DOMAIN path : contains(to_lowercase(path[c]), to_lowercase(flt))

\* visible_node_paths for a display root and a filter, before the sort.
visible_paths(store, root, flt) ==
    SelectSeq(IF root \in DOMAIN store.children THEN store.children[root]
              ELSE <<>>,
              LAMBDA q : (flt # <<>> => matches_filter(q, flt))
                         /\ q \in DOMAIN store.nodes)

visible_node_paths == visible_paths(Store(nodes, children), current_root, filter)

\* Fault for SelectionInBounds: the index is left as it is.
ensure_selection_unclamped(index, len) == index

ensure_selection_in_bounds(index, len) ==
    IF len = 0 THEN 0
    ELSE IF index >= len THEN len - 1
    ELSE index

\* move_selection.
move_selection(index, len, delta) ==
    IF len = 0 THEN 0
    ELSE LET next == index + delta
         IN  IF next < 0 THEN 0 ELSE IF next > len - 1 THEN len - 1 ELSE next

(***************************************************************************)
(* delete.rs.                                                              *)
(***************************************************************************)
\* The entries below the directory `dir` at `path`, each with its path,
\* symlinks not followed.
RECURSIVE Located(_, _)
Located(dir, path) ==
    LET es == Meta(dir).entries
        here == { <<es[i].ino, Append(path, es[i].name)>> :
                     i \in { j \in DOMAIN es : ~es[j].err } }
    IN  here \cup UNION { Located(x[1], x[2]) :
                            x \in { y \in here : Meta(y[1]).kind = "dir" } }

Ok(path) == [ok |-> TRUE, path |-> path, reason |-> ""]

Err(path, reason) == [ok |-> FALSE, path |-> path, reason |-> reason]

\* The path, free of symlinks, of the inode `ino` that `path` leads to.
canonical_path(ino, path) ==
    IF ino = 0 \/ Meta(ino).canonErr THEN Err(path, "cannot resolve")
    ELSE Ok((CHOOSE x \in Located(RootIno, RootPath) \cup { <<RootIno, RootPath>> } :
                x[1] = ino)[2])

\* fs::canonicalize.
canonicalize(path) ==
    canonical_path(IF in_subtree(path, RootPath) THEN metadata(InoAt(path)) ELSE 0,
                   path)

\* Fault for DeleteStaysBelowRoot: the target is not resolved before it is
\* compared with the root.
canonical_target_unresolved(target, root_canonical) ==
    IF ~canonicalize(target).ok THEN Err(target, "cannot resolve path")
    ELSE IF target = root_canonical
    THEN Err(target, "refusing to delete startup root")
    ELSE IF ~in_subtree(target, root_canonical)
    THEN Err(target, "refusing to delete outside startup root")
    ELSE Ok(target)

\* canonical_target_within_root once `target` is canonicalized.
target_within_root(target, target_canonical, root_canonical) ==
    IF ~target_canonical.ok THEN Err(target, "cannot resolve path")
    ELSE IF target_canonical.path = root_canonical
    THEN Err(target, "refusing to delete startup root")
    ELSE IF ~in_subtree(target_canonical.path, root_canonical)
    THEN Err(target, "refusing to delete outside startup root")
    ELSE target_canonical

canonical_target_within_root(target, root_canonical) ==
    target_within_root(target, canonicalize(target), root_canonical)

\* The filesystem once the inodes `gone` are removed: no directory lists
\* them, and a symlink to one of them leads nowhere.
Unlinked(gone) ==
    [i \in DOMAIN disk |->
        [disk[i] EXCEPT !.entries = SelectSeq(@, LAMBDA e : e.err \/ e.ino \notin gone),
                        !.target = IF @ \in gone THEN 0 ELSE @]]

\* fs::remove_file, else fs::remove_dir, else fs::remove_dir_all on the inode
\* at `ino` (a symlink is removed, not followed): whether it succeeded, and
\* the inodes that are gone.  remove_dir_all removes the entries in read_dir
\* order and stops at the first that cannot be removed.
RECURSIVE RemoveAll(_)
RECURSIVE RemoveEntries(_, _)
RemoveEntries(es, gone) ==
    IF es = <<>> THEN [ok |-> TRUE, gone |-> gone]
    ELSE IF Head(es).err THEN RemoveEntries(Tail(es), gone)
    ELSE LET r == RemoveAll(Head(es).ino)
         IN  IF r.ok THEN RemoveEntries(Tail(es), gone \cup r.gone)
             ELSE [ok |-> FALSE, gone |-> gone \cup r.gone]

RemoveAll(ino) ==
    IF Meta(ino).kind # "dir"
    THEN IF Meta(ino).removeErr THEN [ok |-> FALSE, gone |-> {}]
         ELSE [ok |-> TRUE, gone |-> {ino}]
    ELSE LET r == RemoveEntries(Meta(ino).entries, {})
         IN  IF r.ok /\ ~Meta(ino).removeErr
             THEN [ok |-> TRUE, gone |-> r.gone \cup {ino}]
             ELSE [ok |-> FALSE, gone |-> r.gone]

\* remove_target on the inode at `target`.
remove_inode(ino) == IF ino = 0 THEN [ok |-> FALSE, gone |-> {}] ELSE RemoveAll(ino)

remove_target(target) ==
    remove_inode(IF in_subtree(target, RootPath) THEN InoAt(target) ELSE 0)

\* delete_target from remove_target on: Ok or the AppError::Delete returned,
\* and the inodes that are gone.
delete_target_removed(target, del) ==
    IF del.ok THEN [res |-> Ok(target), gone |-> del.gone]
    ELSE [res |-> Err(target, "delete failed"), gone |-> del.gone]

\* delete_target once the target was checked twice.
delete_target_confirmed(target, initial_target, confirmed_target) ==
    IF ~initial_target.ok THEN [res |-> initial_target, gone |-> {}]
    ELSE IF ~confirmed_target.ok THEN [res |-> confirmed_target, gone |-> {}]
    ELSE IF confirmed_target # initial_target
    THEN [res |-> Err(target, "target changed during safety check"), gone |-> {}]
    ELSE delete_target_removed(target, remove_target(target))

\* delete_target once the scan root is canonicalized.
delete_target_checked(target, scan_root, root_canonical) ==
    IF ~root_canonical.ok
    THEN [res |-> Err(scan_root, "cannot resolve scan root"), gone |-> {}]
    ELSE delete_target_confirmed(
             target,
             canonical_target_within_root(target, root_canonical.path),
             canonical_target_within_root(target, root_canonical.path))

\* delete_target: Ok or the AppError::Delete it returns, and the inodes it
\* has removed.
delete_target(target, scan_root) ==
    delete_target_checked(target, scan_root, canonicalize(scan_root))

\* Fault for OneScannerThread: stop() does not wait for the thread.
JoinedAtOnce == TRUE

\* JoinHandle::join has returned: the thread of the session is gone.
Joined == session \notin alive

\* start_scan_at: self.scanner.take(), and stop() up to its join.  Called by
\* App::run, by the `r` key and after a delete.
StartScanAtStop ==
    /\ harness = "app"
    /\ appPc = "idle"
    /\ session <= MaxRescans
    /\ cancel' = (scanner \/ cancel)
    /\ appPc' = "start_scan_at"
    /\ UNCHANGED <<configVars, scannerVars, chan, rxConnected, historyVars,
                   baseline, threadVars, scanner, scan_state, active_scan_root,
                   processed, storeVars,
                   deleteVars, viewVars>>

\* The argument of start_scan_at: startup_root from App::run, current_root
\* from the `r` key and after a delete.
StartScanRoot == IF session = 0 THEN RootPath ELSE current_root

\* Fault for OnlyNewestSessionApplied: the queue of the old session is kept.
StartScanAtSpawnKeepsQueue ==
    /\ appPc = "start_scan_at"
    /\ scanner => Joined
    /\ LET pruned == prune_subtree(Store(nodes, children), StartScanRoot)
       IN  nodes' = pruned.nodes /\ children' = pruned.children
    /\ scan_state' = ScanState("Scanning", ScanProgressDefault)
    /\ active_scan_root' = SomePath(StartScanRoot)
    /\ options' = [options EXCEPT !.root = StartScanRoot]
    /\ scanner' = TRUE
    /\ appPc' = "idle"
    /\ session' = session + 1
    /\ alive' = alive \cup {session + 1}
    /\ chan' = chan
    /\ rxConnected' = TRUE
    /\ cancel' = FALSE
    /\ pc' = "start"
    /\ stack' = <<>>
    /\ result' = "none"
    /\ state' = ScannerStateInit(NoneOpt)
    /\ outbox' = <<>>
    /\ sendPc' = "flush"
    /\ sent' = <<>>
    /\ generated' = <<>>
    /\ received' = <<>>
    /\ visited' = <<>>
    /\ selected_index' = 0
    /\ UNCHANGED <<fsys, harness, baseline, processed, current_root,
                   deleteVars, filter>>

\* start_scan_at once the join returned: the old session is dropped, the
\* subtree of the root is pruned, the new session comes from start_scan (a
\* bounded channel, a cancel flag, a thread).
StartScanAtSpawn ==
    /\ appPc = "start_scan_at"
    /\ scanner => Joined
    /\ LET pruned == prune_subtree(Store(nodes, children), StartScanRoot)
       IN  nodes' = pruned.nodes /\ children' = pruned.children
    /\ scan_state' = ScanState("Scanning", ScanProgressDefault)
    /\ active_scan_root' = SomePath(StartScanRoot)
    /\ options' = [options EXCEPT !.root = StartScanRoot]
    /\ scanner' = TRUE
    /\ appPc' = "idle"
    /\ session' = session + 1
    /\ alive' = alive \cup {session + 1}
    /\ chan' = <<>>
    /\ rxConnected' = TRUE
    /\ cancel' = FALSE
    /\ pc' = "start"
    /\ stack' = <<>>
    /\ result' = "none"
    /\ state' = ScannerStateInit(NoneOpt)
    /\ outbox' = <<>>
    /\ sendPc' = "flush"
    /\ sent' = <<>>
    /\ generated' = <<>>
    /\ received' = <<>>
    /\ visited' = <<>>
    /\ selected_index' = 0
    /\ UNCHANGED <<fsys, harness, baseline, processed, current_root,
                   deleteVars, filter>>

\* Fault for NodesLeaveByPruneOnly: Reset empties the store.
ApplyEventResetClears(event) ==
    /\ LET store == IF event.type = "NodeUpdated"
                    THEN upsert_node(Store(nodes, children), event.node)
                    ELSE IF event.type = "Reset" THEN Store(<<>>, <<>>)
                    ELSE Store(nodes, children)
       IN  nodes' = store.nodes /\ children' = store.children
    /\ CASE event.type = "Reset" ->
               /\ active_scan_root' = SomePath(event.path)
               /\ scan_state' = ScanState("Scanning", ScanProgressDefault)
         [] event.type = "Progress" ->
               /\ scan_state' = ScanState("Scanning", event.progress)
               /\ UNCHANGED active_scan_root
         [] event.type \in {"Complete", "Error", "Cancelled"} ->
               /\ scan_state' = ScanState(event.type, event.progress)
               /\ active_scan_root' = NoPath
         [] OTHER -> UNCHANGED <<scan_state, active_scan_root>>

\* Fault for SessionIffScanning: a terminal event leaves active_scan_root set.
ApplyEventKeepsRoot(event) ==
    /\ LET store == IF event.type = "NodeUpdated"
                    THEN upsert_node(Store(nodes, children), event.node)
                    ELSE Store(nodes, children)
       IN  nodes' = store.nodes /\ children' = store.children
    /\ CASE event.type = "Reset" ->
               /\ active_scan_root' = SomePath(event.path)
               /\ scan_state' = ScanState("Scanning", ScanProgressDefault)
         [] event.type = "Progress" ->
               /\ scan_state' = ScanState("Scanning", event.progress)
               /\ UNCHANGED active_scan_root
         [] event.type \in {"Complete", "Error", "Cancelled"} ->
               /\ scan_state' = ScanState(event.type, event.progress)
               /\ UNCHANGED active_scan_root
         [] OTHER -> UNCHANGED <<scan_state, active_scan_root>>

\* The match of drain_scan_events on one event.
ApplyEvent(event) ==
    /\ LET store == IF event.type = "NodeUpdated"
                    THEN upsert_node(Store(nodes, children), event.node)
                    ELSE Store(nodes, children)
       IN  nodes' = store.nodes /\ children' = store.children
    /\ CASE event.type = "Reset" ->
               /\ active_scan_root' = SomePath(event.path)
               /\ scan_state' = ScanState("Scanning", ScanProgressDefault)
         [] event.type = "Progress" ->
               /\ scan_state' = ScanState("Scanning", event.progress)
               /\ UNCHANGED active_scan_root
         [] event.type \in {"Complete", "Error", "Cancelled"} ->
               /\ scan_state' = ScanState(event.type, event.progress)
               /\ active_scan_root' = NoPath
         [] OTHER -> UNCHANGED <<scan_state, active_scan_root>>

\* drain_scan_events: one turn of its loop that receives an event.  After a
\* terminal event the loop is left and stop() stores the cancel flag.
DrainRecv ==
    /\ harness = "app"
    /\ appPc \in {"idle", "draining"}
    /\ scanner
    /\ chan # <<>>
    /\ appPc = "draining" => processed < MaxEventsPerTick
    /\ LET event == Head(chan)
       IN  /\ chan' = Tail(chan)
           /\ received' = Append(received, event)
           /\ processed' = (IF appPc = "idle" THEN 0 ELSE processed) + 1
           /\ ApplyEvent(event)
           /\ appPc' = IF event.type \in TerminalTypes THEN "drain_stop" ELSE "draining"
           /\ cancel' = (cancel \/ event.type \in TerminalTypes)
    /\ UNCHANGED <<configVars, scannerVars, rxConnected, sent, generated,
                   visited, baseline, threadVars, scanner, current_root,
                   deleteVars, viewVars>>

\* drain_scan_events: the loop ends on an empty channel or on the cap.
DrainEnd ==
    /\ appPc = "draining"
    /\ chan = <<>> \/ processed >= MaxEventsPerTick
    /\ appPc' = "idle"
    /\ selected_index' =
          ensure_selection_in_bounds(selected_index, Len(visible_node_paths))
    /\ UNCHANGED <<configVars, scannerVars, channelVars, historyVars, baseline,
                   threadVars, scanner, scan_state, active_scan_root, processed,
                   storeVars,
                   deleteVars, filter>>

\* Fault for DrainIsBounded: the session is kept after a terminal event.
DrainStopKeepsSession ==
    /\ appPc = "drain_stop"
    /\ Joined
    /\ appPc' = "idle"
    /\ UNCHANGED <<configVars, scannerVars, channelVars, historyVars, baseline,
                   threadVars, scanner, scan_state, active_scan_root, processed,
                   storeVars, deleteVars, viewVars>>

\* drain_scan_events after a terminal event: the join of stop() returns and
\* the session (with its Receiver) is dropped.
DrainStop ==
    /\ appPc = "drain_stop"
    /\ Joined
    /\ scanner' = FALSE
    /\ rxConnected' = FALSE
    /\ chan' = <<>>
    /\ appPc' = "idle"
    /\ selected_index' =
          ensure_selection_in_bounds(selected_index, Len(visible_node_paths))
    /\ UNCHANGED <<configVars, scannerVars, cancel, historyVars, baseline,
                   threadVars, scan_state, active_scan_root, processed,
                   storeVars,
                   deleteVars, filter>>

\* handle_key between two handlers of the event loop, after App::run started
\* the first scan.
KeyHandled == harness = "app" /\ appPc = "idle" /\ session >= 1

\* drill_into_selection, on any row move_selection can select.
DrillIntoSelection ==
    /\ KeyHandled
    /\ \E i \in DOMAIN visible_node_paths :
          LET node == nodes[visible_node_paths[i]]
          IN  /\ node.kind \in {"dir", "symlink"}
              /\ current_root' = node.path
              /\ selected_index' =
                    ensure_selection_in_bounds(
                        0, Len(visible_paths(Store(nodes, children), node.path, filter)))
    /\ UNCHANGED <<configVars, scannerVars, channelVars, historyVars, baseline,
                   threadVars, appPc, scanner, scan_state, active_scan_root,
                   processed, nodes, children,
                   deleteVars, filter>>

\* navigate_to_parent (startup_root is RootPath).
NavigateToParent ==
    /\ KeyHandled
    /\ current_root # RootPath
    /\ current_root # <<>>
    /\ current_root' = parent(current_root)
    /\ selected_index' =
          ensure_selection_in_bounds(
              0, Len(visible_paths(Store(nodes, children), parent(current_root), filter)))
    /\ UNCHANGED <<configVars, scannerVars, channelVars, historyVars, baseline,
                   threadVars, appPc, scanner, scan_state, active_scan_root,
                   processed, nodes, children,
                   deleteVars, filter>>

\* The letters a filter is typed with, and the filters that are typed.
FilterChars == {"D"}

TypedFilters == { <<>>, <<"D">> }

\* The selection and the filter change, nothing else.
ViewOnly ==
    UNCHANGED <<configVars, scannerVars, channelVars, historyVars, baseline,
                threadVars, appPc, scanner, scan_state, active_scan_root,
                processed, storeVars, removed, disk>>

\* handle_key Down/Up and handle_mouse ScrollDown/ScrollUp: move_selection by
\* one row (MOUSE_SCROLL_STEP is 1).
MoveSelection ==
    /\ KeyHandled
    /\ \E delta \in {-1, 1} :
          selected_index' =
              move_selection(selected_index, Len(visible_node_paths), delta)
    /\ UNCHANGED <<filter, message>>
    /\ ViewOnly

\* handle_mouse Down(Left): mouse_row_to_index gives a row of the table.
MouseSelect ==
    /\ KeyHandled
    /\ \E index \in 0..(Len(visible_node_paths) - 1) :
          selected_index' =
              ensure_selection_in_bounds(index, Len(visible_node_paths))
    /\ UNCHANGED <<filter, message>>
    /\ ViewOnly

\* handle_filter_key Char(ch).
FilterPush ==
    /\ KeyHandled
    /\ \E ch \in FilterChars :
          /\ Append(filter, ch) \in TypedFilters
          /\ filter' = Append(filter, ch)
          /\ selected_index' =
                ensure_selection_in_bounds(
                    selected_index,
                    Len(visible_paths(Store(nodes, children), current_root,
                                      Append(filter, ch))))
    /\ UNCHANGED message
    /\ ViewOnly

\* handle_filter_key Backspace.
FilterPop ==
    /\ KeyHandled
    /\ LET popped == SubSeq(filter, 1, Len(filter) - 1)
       IN  /\ filter' = popped
           /\ selected_index' =
                 ensure_selection_in_bounds(
                     selected_index,
                     Len(visible_paths(Store(nodes, children), current_root, popped)))
    /\ UNCHANGED message
    /\ ViewOnly

\* handle_filter_key Esc: the filter is cleared, the selection is not looked
\* at.
FilterEscape ==
    /\ KeyHandled
    /\ filter' = <<>>
    /\ UNCHANGED <<selected_index, message>>
    /\ ViewOnly

\* handle_key Esc.
ClearFilter ==
    /\ KeyHandled
    /\ filter' = <<>>
    /\ message' = NoText
    /\ selected_index' =
          ensure_selection_in_bounds(
              selected_index,
              Len(visible_paths(Store(nodes, children), current_root, <<>>)))
    /\ ViewOnly

\* handle_key `s`: the order of the rows changes, their number does not.
CycleSortMode ==
    /\ KeyHandled
    /\ selected_index' =
          ensure_selection_in_bounds(selected_index, Len(visible_node_paths))
    /\ UNCHANGED <<filter, message>>
    /\ ViewOnly

\* handle_key `m`: the metric changes, no field of the model does.
ToggleMetric ==
    /\ KeyHandled
    /\ UNCHANGED vars

View ==
    \/ MoveSelection \/ MouseSelect
    \/ FilterPush \/ FilterPop \/ FilterEscape \/ ClearFilter
    \/ CycleSortMode \/ ToggleMetric

\* The user message after delete_target returned `r` for `target`.
DeleteMessage(target, r) ==
    IF r.res.ok THEN SomeText(Text(target, "Deleted"))
    ELSE SomeText(Text(r.res.path, r.res.reason))

\* Fault for DeleteOutcome: the handler goes on into start_scan_at whatever
\* delete_target returned.
DeleteReturnedRescans(target, r) ==
    /\ session <= MaxRescans
    /\ removed' = removed \cup r.gone
    /\ disk' = Unlinked(r.gone)
    /\ message' = DeleteMessage(target, r)
    /\ cancel' = (scanner \/ cancel)
    /\ appPc' = "start_scan_at"

\* handle_delete_dialog_key once delete_target returned `r`: on Ok the
\* handler goes on into start_scan_at(current_root), up to the join of stop().
DeleteReturned(target, r) ==
    /\ r.res.ok => session <= MaxRescans
    /\ removed' = removed \cup r.gone
    /\ disk' = Unlinked(r.gone)
    /\ message' = DeleteMessage(target, r)
    /\ cancel' = IF r.res.ok THEN (scanner \/ cancel) ELSE cancel
    /\ appPc' = IF r.res.ok THEN "start_scan_at" ELSE appPc

\* handle_delete_dialog_key: Enter once DELETE is typed, for the target the
\* dialog was opened on (a row of the table, by the `d` key).
DeleteConfirmed ==
    /\ KeyHandled
    /\ \E i \in DOMAIN visible_node_paths :
          DeleteReturned(visible_node_paths[i],
                         delete_target(visible_node_paths[i], current_root))
    /\ UNCHANGED <<configVars, scannerVars, chan, rxConnected, historyVars,
                   baseline, threadVars, scanner, scan_state, active_scan_root,
                   processed, storeVars, viewVars>>

(***************************************************************************)
(* delete_target alone, called for any target with any scan root among the *)
(* paths of the tree of delete.rs: those of its entries, a path through    *)
(* the symlink s and a path that leads nowhere.  current_root is the scan  *)
(* root, appPc tells how the last call returned, message what it said.     *)
(***************************************************************************)
DeletePaths ==
    { x[2] : x \in Located(RootIno, RootPath) }
        \cup { RootPath, RootPath \o << <<"d">>, <<"s">>, <<"g">> >>,
               RootPath \o << <<"x">> >> }

\* What a call of delete_target that returned `r` leaves behind.
DeleteTargetReturned(target, r) ==
    /\ removed' = removed \cup r.gone
    /\ disk' = Unlinked(r.gone)
    /\ message' = DeleteMessage(target, r)
    /\ appPc' = IF r.res.ok THEN "deleted" ELSE "refused"

DeleteTarget ==
    /\ harness = "delete"
    /\ \E target \in DeletePaths :
          DeleteTargetReturned(target, delete_target(target, current_root))
    /\ UNCHANGED <<configVars, scannerVars, channelVars, historyVars, baseline,
                   threadVars, scanner, scan_state, active_scan_root, processed,
                   storeVars, viewVars>>

(***************************************************************************)
(* The store alone: prune_subtree and upsert_node called on a store over a *)
(* few paths (r/a, r/a/b below it, r/ab beside it).  appPc tells which of  *)
(* the two returned last, active_scan_root holds the root pruned last.     *)
(***************************************************************************)
StorePaths ==
    { << <<"r">>, <<"a">> >>, << <<"r">>, <<"a">>, <<"b">> >>,
      << <<"r">>, <<"a", "b">> >> }

StoreNodes ==
    { NodeSummary(p, k, 0, 0, 0, c) :
        p \in StorePaths, k \in {"dir", "file"}, c \in BOOLEAN }

\* self.prune_subtree(&root).
StorePrune ==
    /\ harness = "store"
    /\ \E root \in StorePaths \cup {RootPath} :
          LET pruned == prune_subtree(Store(nodes, children), root)
          IN  /\ nodes' = pruned.nodes
              /\ children' = pruned.children
              /\ active_scan_root' = SomePath(root)
    /\ appPc' = "pruned"
    /\ UNCHANGED <<configVars, scannerVars, channelVars, historyVars, baseline,
                   threadVars, scanner, scan_state, processed, current_root,
                   deleteVars, viewVars>>

\* self.upsert_node(node).
StoreUpsert ==
    /\ harness = "store"
    /\ \E node \in StoreNodes :
          LET store == upsert_node(Store(nodes, children), node)
          IN  /\ nodes' = store.nodes
              /\ children' = store.children
    /\ appPc' = "upserted"
    /\ UNCHANGED <<configVars, scannerVars, channelVars, historyVars, baseline,
                   threadVars, scanner, scan_state, active_scan_root, processed,
                   current_root,
                   deleteVars, viewVars>>

App ==
    \/ StartScanAtStop \/ StartScanAtSpawn
    \/ DrainRecv \/ DrainEnd \/ DrainStop
    \/ DrillIntoSelection \/ NavigateToParent

(***************************************************************************)
(* Initial states and specifications.                                      *)
(***************************************************************************)
\* The options of the tests, and of the command line by default (cli.rs).
TestOptions == ScanOptions(TRUE, FALSE, TRUE, TRUE, NoDepth)

CliOptions == ScanOptions(TRUE, FALSE, TRUE, FALSE, NoDepth)

InitIdle ==
    /\ stack = <<>>
    /\ result = "none"
    /\ state = ScannerStateInit(NoneOpt)
    /\ outbox = <<>>
    /\ sendPc = "flush"
    /\ chan = <<>>
    /\ cancel = FALSE
    /\ sent = <<>>
    /\ generated = <<>>
    /\ received = <<>>
    /\ visited = <<>>
    /\ baseline = NoBaseline
    /\ scan_state = ScanState("Idle", ScanProgressDefault)
    /\ active_scan_root = NoPath
    /\ scanner = FALSE
    /\ appPc = "idle"
    /\ processed = 0
    /\ current_root = RootPath
    /\ removed = {}
    /\ message = NoText
    /\ disk = FileSystems[fsys]
    /\ selected_index = 0
    /\ filter = <<>>

InitCommon ==
    /\ InitIdle
    /\ nodes = <<>>
    /\ children = <<>>

\* thread::spawn(run_scan) on bounded(QueueCapacity), as in worker.rs tests.
InitTest ==
    /\ harness = "test"
    /\ fsys \in {1, 2, 3, 4}
    /\ options = TestOptions
    /\ pc = "start"
    /\ rxConnected = TRUE
    /\ session = 1
    /\ alive = {1}
    /\ InitCommon

\* run_scan_blocking with every item of the display shown.
InitBlocking ==
    /\ harness = "blocking"
    /\ fsys \in 1..Len(FileSystems)
    /\ options \in { ScanOptions(o, f, TRUE, TRUE, NoDepth) :
                        o \in BOOLEAN, f \in BOOLEAN }
    /\ pc = "start"
    /\ rxConnected = TRUE
    /\ session = 1
    /\ alive = {}
    /\ InitCommon

\* App::new.
InitApp ==
    /\ harness = "app"
    /\ fsys = 1
    /\ options = CliOptions
    /\ pc = "unborn"
    /\ rxConnected = FALSE
    /\ session = 0
    /\ alive = {}
    /\ InitCommon

Init == InitTest \/ InitBlocking \/ InitApp

Next ==
    \/ Scanner
    \/ Recv \/ CancelSignal \/ DropReceiver
    \/ Collect \/ RunSecondScan
    \/ App

Spec == Init /\ [][Next]_vars

(***************************************************************************)
(* The scanner with a consumer thread that keeps receiving, as in the      *)
(* tests of worker.rs: the scanner thread and the receiving loop are       *)
(* threads the operating system keeps scheduling.                          *)
(***************************************************************************)
NextReceiving == Scanner \/ Recv \/ CancelSignal

SpecReceiving ==
    InitTest /\ [][NextReceiving]_vars /\ WF_vars(Scanner) /\ WF_vars(Recv)

(***************************************************************************)
(* The App alone.  The scanner thread keeps running, and the App thread    *)
(* leaves a join as soon as the joined thread has ended.                   *)
(***************************************************************************)
NextApp == Scanner \/ App

SpecApp ==
    InitApp /\ [][NextApp]_vars
            /\ WF_vars(Scanner) /\ WF_vars(StartScanAtSpawn) /\ WF_vars(DrainStop)

(***************************************************************************)
(* The scanner on the trees with faults (a root that vanishes; symlinks,   *)
(* a mount point, entries that cannot be read), symlinks followed or not:  *)
(* run_scan_blocking on either tree, and a scanner thread behind the       *)
(* bounded channel, whose consumer keeps receiving, on the vanishing root. *)
(***************************************************************************)
InitFaults ==
    /\ harness \in {"test", "blocking"}
    /\ fsys \in {3, 5}
    /\ fsys = 5 => harness = "blocking"
    /\ options \in { ScanOptions(TRUE, f, TRUE, TRUE, NoDepth) : f \in BOOLEAN }
    /\ pc = "start"
    /\ rxConnected = TRUE
    /\ session = 1
    /\ alive = IF harness = "test" THEN {1} ELSE {}
    /\ InitCommon

NextFaults == Scanner \/ Recv \/ Collect

\* The tree with three symlinks to one directory: run_scan_blocking, and a
\* scanner thread that follows symlinks behind the bounded channel, with only
\* the directories shown.
InitLinks ==
    /\ harness \in {"test", "blocking"}
    /\ fsys = 10
    /\ options \in { ScanOptions(o, f, TRUE, s, NoDepth) :
                        o \in BOOLEAN, f \in BOOLEAN, s \in BOOLEAN }
    /\ harness = "test" => options = ScanOptions(TRUE, TRUE, TRUE, FALSE, NoDepth)
    /\ pc = "start"
    /\ rxConnected = TRUE
    /\ session = 1
    /\ alive = IF harness = "test" THEN {1} ELSE {}
    /\ InitCommon

SpecLinks == InitLinks /\ [][NextFaults]_vars

SpecFaults ==
    InitFaults /\ [][NextFaults]_vars /\ WF_vars(Scanner) /\ WF_vars(Recv)

(***************************************************************************)
(* prune_subtree on any store: a map of nodes and lists of children, of    *)
(* up to MaxListLen paths, that need not agree with each other.            *)
(***************************************************************************)
StoreLists == UNION { [1..n -> StorePaths] : n \in 0..MaxListLen }

InitNoScan ==
    /\ harness = "store"
    /\ fsys = 1
    /\ options = CliOptions
    /\ pc = "unborn"
    /\ rxConnected = FALSE
    /\ session = 0
    /\ alive = {}
    /\ InitIdle

InitAnyStore ==
    /\ InitNoScan
    /\ \E keys \in SUBSET StorePaths :
          nodes = [p \in keys |-> NodeSummary(p, "dir", 0, 0, 0, TRUE)]
    /\ \E keys \in SUBSET StorePaths : children \in [keys -> StoreLists]

NextPrune == StorePrune

SpecPrune == InitAnyStore /\ [][NextPrune]_vars

(***************************************************************************)
(* The store from App::new on: under any sequence of upsert_node and       *)
(* prune_subtree calls, and under the App with its scanner.                *)
(***************************************************************************)
InitStore == InitNoScan /\ nodes = <<>> /\ children = <<>>

InitStores == InitStore \/ InitApp

NextStores == StorePrune \/ StoreUpsert \/ Scanner \/ App

SpecStores == InitStores /\ [][NextStores]_vars

(***************************************************************************)
(* delete_target on the tree of delete.rs, for every scan root.            *)
(***************************************************************************)
InitDelete ==
    /\ harness = "delete"
    /\ fsys = 7
    /\ options = CliOptions
    /\ pc = "unborn"
    /\ rxConnected = FALSE
    /\ session = 0
    /\ alive = {}
    /\ stack = <<>>
    /\ result = "none"
    /\ state = ScannerStateInit(NoneOpt)
    /\ outbox = <<>>
    /\ sendPc = "flush"
    /\ chan = <<>>
    /\ cancel = FALSE
    /\ sent = <<>>
    /\ generated = <<>>
    /\ received = <<>>
    /\ visited = <<>>
    /\ baseline = NoBaseline
    /\ scan_state = ScanState("Idle", ScanProgressDefault)
    /\ active_scan_root = NoPath
    /\ scanner = FALSE
    /\ appPc = "idle"
    /\ processed = 0
    /\ nodes = <<>>
    /\ children = <<>>
    /\ removed = {}
    /\ message = NoText
    /\ disk = FileSystems[fsys]
    /\ selected_index = 0
    /\ filter = <<>>
    /\ current_root \in DeletePaths

NextDelete == DeleteTarget

SpecDelete == InitDelete /\ [][NextDelete]_vars

(***************************************************************************)
(* The App with the delete dialog, on a tree with a directory that cannot  *)
(* be removed and one that can.                                            *)
(***************************************************************************)
InitAppDelete ==
    /\ harness = "app"
    /\ fsys = 8
    /\ options = CliOptions
    /\ pc = "unborn"
    /\ rxConnected = FALSE
    /\ session = 0
    /\ alive = {}
    /\ InitCommon

NextAppDelete ==
    \/ Scanner
    \/ StartScanAtStop \/ StartScanAtSpawn
    \/ DrainRecv \/ DrainEnd \/ DrainStop
    \/ DeleteConfirmed

SpecAppDelete == InitAppDelete /\ [][NextAppDelete]_vars

(***************************************************************************)
(* run_scan_blocking as in scan_integration.rs, on the tree with hidden    *)
(* entries and a mount point, under every choice of one_file_system,       *)
(* show_hidden, show_files and max_depth, from the top of the tree, from   *)
(* its hidden directory, from the file in it and from its mount point; and *)
(* run_scan behind the bounded channel, with dot names hidden and          *)
(* max_depth = 1.                                                          *)
(***************************************************************************)
HiddenRoot == RootPath \o << <<".", "h">> >>

FileRoot == HiddenRoot \o << <<"x">> >>

MountRoot == RootPath \o << <<"m">> >>

InitDisplay ==
    /\ harness \in {"blocking", "test"}
    /\ fsys = 9
    /\ options \in { [ScanOptions(o, FALSE, h, f, d) EXCEPT !.root = r] :
                        o \in BOOLEAN, h \in BOOLEAN, f \in BOOLEAN,
                        d \in {NoDepth} \cup { SomeDepth(n) : n \in 0..MaxDepthOption },
                        r \in {RootPath, HiddenRoot, FileRoot, MountRoot} }
    /\ harness = "test" => options = [TestOptions EXCEPT !.show_hidden = FALSE,
                                                         !.max_depth = SomeDepth(1)]
    /\ pc = "start"
    /\ rxConnected = TRUE
    /\ session = 1
    /\ alive = IF harness = "test" THEN {1} ELSE {}
    /\ InitCommon

NextDisplay == Scanner \/ Recv \/ Collect

SpecDisplay == InitDisplay /\ [][NextDisplay]_vars

(***************************************************************************)
(* The App with its table, on a root with two directories: the user moves  *)
(* the selection, types a filter, changes the order, drills down and back, *)
(* rescans.                                                                *)
(***************************************************************************)
InitSelection ==
    /\ harness = "app"
    /\ fsys = 8
    /\ options = CliOptions
    /\ pc = "unborn"
    /\ rxConnected = FALSE
    /\ session = 0
    /\ alive = {}
    /\ InitCommon

NextSelection == Scanner \/ App \/ View

SpecSelection == InitSelection /\ [][NextSelection]_vars

(***************************************************************************)
(* The receiving thread of the worker.rs tests may end, dropping the       *)
(* Receiver, at any point of the scan.  The scanner thread is scheduled.   *)
(***************************************************************************)
NextDropping == Scanner \/ Recv \/ DropReceiver

SpecDropping == InitTest /\ [][NextDropping]_vars /\ WF_vars(Scanner)

(***************************************************************************)
(* Properties.                                                             *)
(***************************************************************************)
Last(s) == s[Len(s)]

IsTerminal(event) == event.type \in TerminalTypes

OfType(events, type) == SelectSeq(events, LAMBDA e : e.type = type)

\* run_scan has returned and its Receiver was connected all along.
ScanOver == pc = "exited" /\ rxConnected

\* C1: while the receiver is connected, the events enqueued by a scan begin
\* with Reset, a terminal event (Complete, Error, Cancelled) is the last
\* event enqueued, so there is at most one, and a scan that has returned has
\* enqueued one.
EventStreamShape ==
    rxConnected =>
        /\ sent # <<>> => sent[1].type = "Reset"
        /\ \A i \in 1..Len(sent) : IsTerminal(sent[i]) => i = Len(sent)
        /\ pc = "exited" => sent # <<>> /\ IsTerminal(Last(sent))

\* A scan under backpressure has returned: Reset, a backpressure Warning and
\* Complete are in the stream.
EventStreamShapeWitness ==
    /\ ScanOver
    /\ harness = "test"
    /\ Last(sent).type = "Complete"
    /\ OfType(sent, "Warning") # <<>>
    /\ Len(sent) > 3

\* C2: stop() returns: the App thread that entered the join of start_scan_at
\* leaves it.
StopReturns == (appPc = "start_scan_at") ~> (appPc = "idle")

\* The root of the tree can be read: run_scan's stat of it succeeds.
RootReadable == ~symlink_metadata_fails(RootIno, 1)

\* C3: with no cancel request, a root that can be stat'ed and a consumer that
\* keeps receiving, the scan ends with Complete, whatever was dropped or
\* coalesced on the way; and the scanner is in the retry loop of a send only
\* with a critical event, never with a NodeUpdated or a Progress.
NoncriticalNeverAwaited ==
    /\ [](sendPc = "sleep" =>
             outbox # <<>> /\ Head(outbox).event.type \in CriticalTypes)
    /\ <>(\/ cancel
          \/ ~RootReadable
          \/ ScanOver /\ Last(sent).type = "Complete" /\ result = "continue")

\* A scan that dropped NodeUpdated events and deferred Progress snapshots was
\* not cancelled and has enqueued Complete.
NoncriticalNeverAwaitedWitness ==
    /\ ScanOver
    /\ ~cancel
    /\ state.dropped_node_updates > 0
    /\ state.deferred_progress_updates > 0
    /\ Last(sent).type = "Complete"

\* The Progress snapshots of a sequence of events.
Snapshots(events) ==
    LET ps == OfType(events, "Progress")
    IN  [i \in 1..Len(ps) |-> ps[i].progress]

NonDecreasing(p, q) ==
    /\ p.visited_entries <= q.visited_entries
    /\ p.warnings <= q.warnings
    /\ p.apparent_bytes_seen <= q.apparent_bytes_seen
    /\ p.allocated_bytes_seen <= q.allocated_bytes_seen

\* C4: the Progress snapshots the consumer has received are non-decreasing
\* in visited_entries, warnings, apparent_bytes_seen and allocated_bytes_seen.
ProgressMonotonic ==
    LET ps == Snapshots(received)
    IN  \A i \in 1..Len(ps) : \A j \in i..Len(ps) : NonDecreasing(ps[i], ps[j])

\* C5: while the receiver is connected, the critical events enqueued so far,
\* followed by those the current step has still to send, are the critical
\* events generated, each once and in the order of generation.
CriticalEnqueuedInOrder ==
    rxConnected =>
        SelectSeq(sent, LAMBDA e : e.type \in CriticalTypes)
            \o Events(Crits(outbox)) = generated

\* The backpressure Warning met a full channel: it is kept, and tried again
\* after the sleep of the retry loop.
CriticalEnqueuedInOrderWitness ==
    /\ rxConnected
    /\ sendPc = "sleep"
    /\ Len(chan) = QueueCapacity
    /\ Head(outbox).event.type = "Warning"
    /\ Len(generated) > Len(SelectSeq(sent, LAMBDA e : e.type \in CriticalTypes))

BackpressureWarnings(events) ==
    SelectSeq(events, LAMBDA e : e.type = "Warning"
                                 /\ e.message.text = "scanner backpressure")

\* C6: once the terminal event of a scan is enqueued (receiver connected),
\* exactly one backpressure Warning precedes it if a NodeUpdated was dropped
\* or a Progress was deferred or coalesced, and none if nothing was.
BackpressureReported ==
    ScanOver =>
        Len(BackpressureWarnings(sent)) =
            IF \/ state.dropped_node_updates > 0
               \/ state.deferred_progress_updates > 0
               \/ state.coalesced_progress_updates > 0
            THEN 1 ELSE 0

\* The next step of the scanner starts with a read of the cancel flag:
\* scan_entry, scan_dir, or a turn of the loop over the entries.
FlagCheckDue ==
    /\ outbox = <<>>
    /\ \/ pc = "scan_entry"
       \/ /\ pc = "scan_dir"
          /\ Top.phase = "enter" \/ EntriesLeft(Top) \/ Top.pending_dirs # <<>>

\* An entry of a directory, or a pending subdirectory, is still to be visited.
WorkRemains ==
    /\ pc = "scan_dir"
    /\ \E i \in DOMAIN stack :
          EntriesLeft(stack[i]) \/ stack[i].pending_dirs # <<>>

\* C7: with a consumer that keeps receiving, once the cancel flag is set
\* while an entry or a pending subdirectory remains, the next read of the
\* flag ends the traversal with no further entry visited, nothing is visited
\* afterwards, and the scan returns with Cancelled as its terminal event.
CancelObserved ==
    /\ [][cancel /\ FlagCheckDue /\ scannerVars' # scannerVars
             => visited' = visited /\ pc' = "finish" /\ result' = "cancelled"]_vars
    /\ [][result = "cancelled" => visited' = visited]_vars
    /\ (cancel /\ WorkRemains) ~> (ScanOver /\ Last(sent).type = "Cancelled")

\* A scan of the test tree cancelled midway: some of its five entries were
\* visited, and Cancelled is enqueued.
CancelObservedWitness ==
    /\ ScanOver
    /\ fsys = 1
    /\ cancel
    /\ Len(visited) \in 1..4
    /\ Last(sent).type = "Cancelled"

\* C8: at most one scanner thread is alive, it is the thread of the current
\* session, and an App without a session has no scanner thread.
OneScannerThread ==
    /\ Cardinality(alive) <= 1
    /\ alive \subseteq {session}
    /\ harness = "app" /\ ~scanner => alive = {}

\* The App rescanned while its first scan was running: the second thread is
\* alive and the first one is gone.
OneScannerThreadWitness ==
    /\ harness = "app"
    /\ session = 2
    /\ alive = {2}
    /\ pc = "scan_dir"

\* The final NodeUpdated events of the root among `events`.
RootFinals(events) ==
    SelectSeq(events, LAMBDA e : /\ e.type = "NodeUpdated"
                                 /\ e.node.path = RootPath
                                 /\ e.node.is_complete)

RECURSIVE SumApparent(_)
SumApparent(log) ==
    IF log = <<>> THEN 0 ELSE Head(log).apparent + SumApparent(Tail(log))

RECURSIVE SumAllocated(_)
SumAllocated(log) ==
    IF log = <<>> THEN 0 ELSE Head(log).allocated + SumAllocated(Tail(log))

Saturated(n) == IF n > U64Max THEN U64Max ELSE n

\* The entries counted right under the root.
CountedChildren ==
    Len(SelectSeq(visited, LAMBDA v : Len(v.path) = Len(RootPath) + 1))

\* The trees without links, mount points or failing entries: every inode is
\* an entry that a scan visits.
PlainTrees == {1, 6}

RECURSIVE TreeApparent(_)
TreeApparent(n) == IF n = 0 THEN 0 ELSE Fs[n].len + TreeApparent(n - 1)

RECURSIVE TreeAllocated(_)
TreeAllocated(n) == IF n = 0 THEN 0 ELSE allocated_size(Fs[n]) + TreeAllocated(n - 1)

\* C9 (as amended): when a scan ends with Complete, the final NodeUpdated of
\* the root carries, as sums that saturate at u64::MAX, the sizes of the root
\* and of every visited descendant, and as children_count the number of its
\* counted immediate children; on a tree where nothing is skipped these are
\* the sizes of all its entries and the number of entries of the root.
RootTotalsSaturatingSum ==
    ScanOver /\ Last(sent).type = "Complete" =>
        \A i \in DOMAIN RootFinals(sent) :
            LET node == RootFinals(sent)[i].node
            IN  /\ node.apparent_bytes = Saturated(SumApparent(visited))
                /\ node.allocated_bytes = Saturated(SumAllocated(visited))
                /\ node.children_count = CountedChildren
                /\ fsys \in PlainTrees =>
                      /\ node.apparent_bytes = Saturated(TreeApparent(Len(Fs)))
                      /\ node.allocated_bytes = Saturated(TreeAllocated(Len(Fs)))
                      /\ node.children_count = Len(Fs[RootIno].entries)

\* A finished scan of a tree whose sizes add up to more than u64::MAX: the
\* root carries u64::MAX.
RootTotalsSaturatingSumWitness ==
    /\ ScanOver
    /\ Last(sent).type = "Complete"
    /\ RootFinals(sent) # <<>>
    /\ Len(visited) = 3
    /\ SumApparent(visited) > U64Max
    /\ Last(RootFinals(sent)).node.apparent_bytes = U64Max

\* C9 (as stated): the final NodeUpdated of the root carries the sum of the
\* sizes of the root and of every visited descendant.
RootTotalsPlainSum ==
    ScanOver /\ Last(sent).type = "Complete" =>
        \A i \in DOMAIN RootFinals(sent) :
            LET node == RootFinals(sent)[i].node
            IN  /\ node.apparent_bytes = SumApparent(visited)
                /\ node.allocated_bytes = SumAllocated(visited)
                /\ node.children_count = CountedChildren

NonNode(events) == SelectSeq(events, LAMBDA e : e.type # "NodeUpdated")

Range(f) == { f[i] : i \in DOMAIN f }

RootBytes(events) ==
    { <<e.node.apparent_bytes, e.node.allocated_bytes>> : e \in Range(RootFinals(events)) }

Types(events) == [i \in DOMAIN events |-> events[i].type]

IsPrefix(s, t) == Len(s) <= Len(t) /\ SubSeq(t, 1, Len(s)) = s

\* The scan root does not exist or cannot be stat'ed: the stat of run_scan
\* fails.
RootStatFails == ScanRootIno = 0 \/ Meta(ScanRootIno).statErr = "always"

\* A stat of the scan root has failed: the one of run_scan, or the one of
\* scan_entry on a root that was there for run_scan.
RootStatFailed ==
    \/ RootStatFails
    \/ /\ Meta(ScanRootIno).statErr = "second"
       /\ pc \in {"finish", "return", "exited"}

\* C11: when the stat of the scan root fails, no entry is visited and the
\* events enqueued (receiver connected) are Reset then Error and nothing
\* else: both are there once run_scan has returned.
RootStatAlwaysFatal ==
    RootStatFailed /\ rxConnected =>
        /\ visited = <<>>
        /\ IsPrefix(Types(sent), <<"Reset", "Error">>)
        /\ pc = "exited" => Len(sent) = 2

\* What holds of C11: the same, when it is the stat of run_scan that fails.
RootStatFatal ==
    RootStatFails /\ rxConnected =>
        /\ visited = <<>>
        /\ IsPrefix(Types(sent), <<"Reset", "Error">>)
        /\ pc = "exited" => Len(sent) = 2

\* The next step of scan_dir handles a directory entry with a fault: the
\* read_dir item is an Err, the entry cannot be stat'ed, or it is a symlink
\* to follow whose target cannot be resolved.
EntryFaultDue ==
    /\ pc = "scan_dir" /\ outbox = <<>> /\ EntriesLeft(Top)
    /\ ~should_cancel
    /\ LET e == Meta(Top.ino).entries[Top.idx]
       IN  \/ e.err
           \/ /\ ~e.err
              /\ \/ Meta(e.ino).statErr = "always"
                 \/ /\ Meta(e.ino).kind = "symlink"
                    /\ options.follow_symlinks
                    /\ metadata(e.ino) = 0

\* The next step of scan_dir enters a pending directory that cannot be read.
ReadDirFaultDue ==
    /\ pc = "scan_dir" /\ outbox = <<>>
    /\ Top.phase = "entries" /\ ~EntriesLeft(Top) /\ Top.pending_dirs # <<>>
    /\ ~should_cancel
    /\ LET d == Head(Top.pending_dirs)
       IN  /\ Meta(d.ino).readErr
           /\ ~d.is_symlink_dir

FaultWarnings(events) ==
    SelectSeq(events, LAMBDA e : e.type = "Warning"
                                 /\ e.message.text # "scanner backpressure")

\* C12: the step that meets a fault on an entry or on a directory generates
\* exactly one Warning, for a path in that directory, raises the warning
\* counter by one and goes on with the scan; no Error is ever generated once
\* the root was stat'ed, a path has at most one fault Warning, the counter of
\* Complete is the number of Warnings, and a scan that nobody cancels ends
\* with Complete.
FaultsAreWarnings ==
    /\ [][(EntryFaultDue \/ ReadDirFaultDue) /\ scannerVars' # scannerVars =>
             /\ Len(generated') = Len(generated) + 1
             /\ Last(generated').type = "Warning"
             /\ in_subtree(Last(generated').path, Top.path)
             /\ state'.progress.warnings = state.progress.warnings + 1
             /\ pc' = "scan_dir"]_vars
    /\ [](\A i, j \in DOMAIN FaultWarnings(generated) :
             FaultWarnings(generated)[i].path = FaultWarnings(generated)[j].path
                => i = j)
    /\ [](ScanOver =>
             /\ Last(sent).type = "Complete"
             /\ Last(sent).progress.warnings = Len(OfType(sent, "Warning")))
    /\ <>ScanOver

\* A scan that followed symlinks has ended with Complete after the faults of
\* the tree: a failing read_dir item, an entry that cannot be stat'ed, a
\* dangling symlink, an unreadable directory.
FaultsAreWarningsWitness ==
    /\ ScanOver
    /\ fsys = 5
    /\ options.follow_symlinks
    /\ Last(sent).type = "Complete"
    /\ \A text \in {"cannot read entry", "cannot stat path",
                    "cannot follow symlink target", "cannot read directory"} :
          \E i \in DOMAIN sent : sent[i].type = "Warning" /\ sent[i].message.text = text

\* The symlinks of the tree that lead back to a directory above them.
LinksBack ==
    { l \in Below(RootIno) :
        /\ Meta(l).kind = "symlink"
        /\ metadata(l) # 0
        /\ Meta(metadata(l)).kind = "dir"
        /\ l \in Below(metadata(l)) }

CycleWarnings(events) ==
    SelectSeq(events, LAMBDA e : e.type = "Warning"
                 /\ e.message.text = "detected symlink cycle, skipping traversal")

Pruned(store, root) ==
    /\ \A p \in DOMAIN store.nodes : ~in_subtree(p, root)
    /\ \A k \in DOMAIN store.children :
          \A i \in DOMAIN store.children[k] : ~in_subtree(store.children[k][i], root)

\* C14: whatever the store holds, prune_subtree(R) returns a store with no
\* key of nodes at or under R and no children list with such a path; so it
\* is for the store once a call of prune_subtree(R) has returned.
PruneRemovesSubtree ==
    /\ \A root \in StorePaths \cup {RootPath} :
          Pruned(prune_subtree(Store(nodes, children), root), root)
    /\ appPc = "pruned" => Pruned(Store(nodes, children), active_scan_root.val)

\* prune_subtree(r/a) has returned on a store that had r/a/b in a list whose
\* key is no node: the list is still there, and r/ab is still a node.
PruneRemovesSubtreeWitness ==
    /\ harness = "store"
    /\ appPc = "pruned"
    /\ active_scan_root.val = << <<"r">>, <<"a">> >>
    /\ << <<"r">>, <<"a">>, <<"b">> >> \in DOMAIN children
    /\ << <<"r">>, <<"a", "b">> >> \in DOMAIN nodes
    /\ \E k \in DOMAIN children : children[k] # <<>>

\* C15: every path in a children list is a key of nodes, after any sequence
\* of upsert_node and prune_subtree calls on the store of App::new, and in
\* the App whatever its scanner sends or drops and whenever it restarts.
ChildrenAreNodes ==
    \A k \in DOMAIN children :
        \A i \in DOMAIN children[k] : children[k][i] \in DOMAIN nodes

\* The App has restarted its scan, the new scan has dropped a NodeUpdated,
\* and the store holds a child whose parent is no node.
ChildrenAreNodesWitness ==
    /\ harness = "app"
    /\ session >= 2
    /\ state.dropped_node_updates > 0
    /\ \E k \in DOMAIN children : k \notin DOMAIN nodes /\ children[k] # <<>>
    /\ \E k \in DOMAIN children : k \in DOMAIN nodes /\ children[k] = <<>>

\* C16: the step of start_scan_at that starts a session is taken when the
\* prior session, if any, was told to stop and its thread has ended; it
\* leaves a store with no node at or under the root of the new scan, and the
\* new scanner at its start with an empty channel; and while the new scanner
\* is at its start the store holds no node at or under its root.
StartScanPrunesFirst ==
    /\ [][session' # session =>
             /\ scanner => cancel /\ session \notin alive
             /\ alive = {}
             /\ Pruned(Store(nodes', children'), options'.root)
             /\ active_scan_root' = SomePath(options'.root)
             /\ alive' = {session'}
             /\ pc' = "start" /\ chan' = <<>> /\ sent' = <<>>]_vars
    /\ [](harness = "app" /\ pc = "start" =>
             Pruned(Store(nodes, children), options.root))

\* A rescan of a directory drilled into is at its start, the thread of the
\* session before it gone: the nodes outside that directory are kept.
StartScanPrunesFirstWitness ==
    /\ harness = "app"
    /\ session >= 2
    /\ pc = "start"
    /\ alive = {session}
    /\ options.root # RootPath
    /\ nodes # <<>>
    /\ Pruned(Store(nodes, children), options.root)

\* C17: between two handlers of the App, the display root is the root of the
\* scan started last: drill_into_selection and navigate_to_parent have
\* started a scan of the root they moved to.
NavigationRescans ==
    KeyHandled => current_root = options.root

\* The path leads to a directory, through a symlink or not.
IsDirPath(path) ==
    /\ in_subtree(path, RootPath)
    /\ metadata(InoAt(path)) # 0
    /\ Meta(metadata(InoAt(path))).kind = "dir"

NodeUpdates(events, path) ==
    SelectSeq(events, LAMBDA e : e.type = "NodeUpdated" /\ e.node.path = path)

\* C18: the NodeUpdated events a scan has enqueued for a directory path are
\* at most two; of two, the first has is_complete false and the second true;
\* one with is_complete false has children_count 0 and the sizes of the
\* directory itself; and within a session no node of the App's store goes
\* from complete to incomplete.
DirUpdatesOrdered ==
    /\ [](\A i \in DOMAIN sent :
            sent[i].type = "NodeUpdated" /\ IsDirPath(sent[i].node.path) =>
                LET node == sent[i].node
                    own == Meta(metadata(InoAt(node.path)))
                    ups == NodeUpdates(sent, node.path)
                IN  /\ Len(ups) <= 2
                    /\ Len(ups) = 2 =>
                          ~ups[1].node.is_complete /\ ups[2].node.is_complete
                    /\ ~node.is_complete =>
                          /\ node.children_count = 0
                          /\ node.apparent_bytes = own.len
                          /\ node.allocated_bytes = allocated_size(own))
    /\ [][session' = session =>
             \A p \in DOMAIN nodes \cap DOMAIN nodes' :
                 nodes[p].is_complete => nodes'[p].is_complete]_vars

\* The App has stored the final update of a directory below the root of the
\* scan, after the provisional one, both enqueued by the scan that runs.
DirUpdatesOrderedWitness ==
    /\ harness = "app"
    /\ \E p \in DOMAIN nodes :
          /\ p # options.root
          /\ IsDirPath(p)
          /\ nodes[p].is_complete
          /\ Len(NodeUpdates(sent, p)) = 2
          /\ Len(NodeUpdates(received, p)) = 2

\* C19: a NodeUpdated enqueued with kind file, symlink or other has
\* is_complete true and is the only NodeUpdated the scan has enqueued for
\* its path.
NonDirUpdatesFinal ==
    \A i \in DOMAIN sent :
        sent[i].type = "NodeUpdated" /\ sent[i].node.kind \in {"file", "symlink", "other"} =>
            /\ sent[i].node.is_complete
            /\ Len(NodeUpdates(sent, sent[i].node.path)) = 1

\* What holds of C19: the same for the paths that do not lead to a directory,
\* and, when symlinks are not followed, for every NodeUpdated of these kinds.
NonDirUpdatesFinalUnfollowed ==
    \A i \in DOMAIN sent :
        /\ sent[i].type = "NodeUpdated"
        /\ sent[i].node.kind \in {"file", "symlink", "other"}
        /\ ~options.follow_symlinks \/ ~IsDirPath(sent[i].node.path)
        => /\ sent[i].node.is_complete
           /\ Len(NodeUpdates(sent, sent[i].node.path)) = 1

\* C20: among the events a scan has enqueued, a NodeUpdated for a path below
\* a directory comes before the NodeUpdated of that directory with
\* is_complete true.
ChildrenBeforeFinal ==
    \A i, j \in DOMAIN sent :
        /\ sent[i].type = "NodeUpdated" /\ sent[i].node.is_complete
        /\ sent[j].type = "NodeUpdated"
        /\ sent[j].node.path # sent[i].node.path
        /\ in_subtree(sent[j].node.path, sent[i].node.path)
        => j < i

\* A scan has ended after the final update of the root, with before it the
\* final update of a directory of the root and, before that one, the update
\* of a file in that directory.
ChildrenBeforeFinalWitness ==
    /\ ScanOver
    /\ \E i, j, k \in DOMAIN sent :
          /\ i < j /\ j < k
          /\ sent[i].type = "NodeUpdated" /\ sent[j].type = "NodeUpdated"
          /\ sent[k].type = "NodeUpdated"
          /\ sent[k].node.path = options.root /\ sent[k].node.is_complete
          /\ Len(sent[j].node.path) = Len(options.root) + 1
          /\ sent[j].node.is_complete /\ sent[j].node.kind = "dir"
          /\ parent(sent[i].node.path) = sent[j].node.path


(***************************************************************************)
(* delete.rs and the delete dialog.                                        *)
(***************************************************************************)
\* `target` resolves and `root` resolves, and what `target` resolves to is
\* the root itself or is not beneath it.
NotBeneathRoot(target, root) ==
    /\ canonicalize(target).ok
    /\ canonicalize(root).ok
    /\ \/ canonicalize(target).path = canonicalize(root).path
       \/ ~in_subtree(canonicalize(target).path, canonicalize(root).path)

\* C21: a call of delete_target whose target resolves to the scan root
\* itself, or to a place that is not beneath the scan root, returns an error
\* and removes nothing from the filesystem.
DeleteStaysBelowRoot ==
    [][(harness = "delete" /\ message'.some
            /\ NotBeneathRoot(message'.val.path, current_root))
          => (appPc' = "refused" /\ removed' = removed)]_vars

\* The symlink /r/d/e, inside the scan root /r/d, leads to /r/f outside it:
\* the call was refused and nothing is gone.
DeleteStaysBelowRootWitness ==
    /\ harness = "delete"
    /\ appPc = "refused"
    /\ current_root = RootPath \o << <<"d">> >>
    /\ message = SomeText(Text(RootPath \o << <<"d">>, <<"e">> >>,
                               "refusing to delete outside startup root"))
    /\ removed = {}

\* A step of handle_delete_dialog_key that called delete_target.
DeleteStep == harness = "app" /\ (message' # message \/ removed' # removed)

\* C22: when delete_target fails, the handler leaves the store (nodes and
\* children), the scan state and the scanner session as they were and sets
\* the user message; when it succeeds, the handler enters start_scan_at,
\* which prunes the subtree of the directory on display and starts a scan of
\* that directory.
DeleteOutcome ==
    [][/\ (DeleteStep /\ message'.val.text # "Deleted")
            => /\ message'.some
               /\ UNCHANGED <<nodes, children, current_root, scan_state,
                              active_scan_root, scanner, session, alive, appPc,
                              channelVars, scannerVars, processed>>
       /\ (DeleteStep /\ message'.val.text = "Deleted")
            => /\ appPc' = "start_scan_at"
               /\ cancel' = (scanner \/ cancel)
               /\ UNCHANGED <<nodes, children, current_root, session>>
       /\ (harness = "app" /\ appPc = "start_scan_at" /\ appPc' # appPc)
            => /\ \A q \in DOMAIN nodes' : ~in_subtree(q, current_root)
               /\ active_scan_root' = SomePath(current_root)
               /\ options'.root = current_root
               /\ scan_state' = ScanState("Scanning", ScanProgressDefault)
               /\ scanner' /\ session' = session + 1 /\ pc' = "start"
               /\ appPc' = "idle"]_vars

\* The delete of k succeeded and the scan it restarted has listed d again;
\* the delete of d then failed, with the session and the store kept.
DeleteOutcomeWitness ==
    /\ harness = "app"
    /\ removed = {3}
    /\ message = SomeText(Text(RootPath \o << <<"d">> >>, "delete failed"))
    /\ session = 2
    /\ scanner
    /\ appPc = "idle"
    /\ RootPath \o << <<"d">> >> \in DOMAIN nodes

(***************************************************************************)
(* The display options.                                                    *)
(***************************************************************************)
DotNamed(name) == Len(name) > 0 /\ name[1] = "."

\* `path` is a dot-named entry below the scan root, or lies beneath one.
HiddenBelowRoot(path) ==
    \E i \in (Len(options.root) + 1)..Len(path) : DotNamed(path[i])

\* The entries of the scan in progress: inode and path, below the scan root
\* and on its device.
ScanEntries ==
    { x \in Located(ScanRootIno, options.root) :
          Meta(x[1]).dev = Meta(ScanRootIno).dev }

\* The entries counted in or beneath `path`.
SubtreeLog(path) == SelectSeq(visited, LAMBDA v : in_subtree(v.path, path))

UpdatedPaths == { e.node.path : e \in Range(OfType(sent, "NodeUpdated")) }

VisitedPaths == { v.path : v \in Range(visited) }

DisplayDepth(path) == Len(path) - Len(options.root)

WithinDepth(path) ==
    options.max_depth.some => DisplayDepth(path) <= options.max_depth.val

Fenced(path) ==
    \E k \in (Len(options.root) + 1)..Len(path) :
        /\ Meta(InoAt(SubSeq(path, 1, k))).kind = "dir"
        /\ Meta(InoAt(SubSeq(path, 1, k))).dev # Meta(ScanRootIno).dev

FencedPaths == { x[2] : x \in { y \in Located(ScanRootIno, options.root) : Fenced(y[2]) } }

OpenPaths ==
    { x[2] : x \in { y \in Located(ScanRootIno, options.root) : ~Fenced(y[2]) } }
        \cup {options.root}

\* The entries counted right under `path`.
CountedUnder(path) ==
    Cardinality({ i \in DOMAIN visited : /\ Len(visited[i].path) = Len(path) + 1
                                         /\ in_subtree(visited[i].path, path) })

\* C25: with one_file_system on, a directory below the root that is on
\* another filesystem than the root is skipped with all that is beneath it:
\* no entry of it is counted (no progress increment), no NodeUpdated and no
\* Warning names one, the totals and the children_count of every directory
\* reported are those of the entries counted; the root is never skipped: a
\* scan that completes has counted the root and every entry not fenced off.
MountFence ==
    options.one_file_system =>
        /\ \A q \in FencedPaths :
              /\ q \notin VisitedPaths
              /\ \A i \in DOMAIN sent :
                    /\ sent[i].type = "NodeUpdated" => sent[i].node.path # q
                    /\ sent[i].type = "Warning" => sent[i].path # q
        /\ \A i \in DOMAIN sent :
              (sent[i].type = "NodeUpdated" /\ sent[i].node.is_complete
                  /\ sent[i].node.kind = "dir")
              => /\ sent[i].node.apparent_bytes
                        = Saturated(SumApparent(SubtreeLog(sent[i].node.path)))
                 /\ sent[i].node.allocated_bytes
                        = Saturated(SumAllocated(SubtreeLog(sent[i].node.path)))
                 /\ sent[i].node.children_count = CountedUnder(sent[i].node.path)
        /\ \A i \in DOMAIN sent :
              sent[i].type \in {"Progress", "Complete"}
                  => sent[i].progress.visited_entries <= Cardinality(OpenPaths)
        /\ (ScanOver /\ Last(sent).type = "Complete")
              => /\ VisitedPaths = OpenPaths
                 /\ Last(sent).progress.visited_entries = Cardinality(OpenPaths)

\* A finished scan from the top with one_file_system on: the mount point m
\* and its file w are not counted, the root is reported with two children.
MountFenceWitness ==
    /\ ScanOver /\ Last(sent).type = "Complete"
    /\ harness = "blocking"
    /\ fsys = 9 /\ options.root = RootPath /\ options.one_file_system
    /\ FencedPaths = {MountRoot, MountRoot \o << <<"w">> >>}
    /\ \E i \in DOMAIN sent :
          /\ sent[i].type = "NodeUpdated" /\ sent[i].node.is_complete
          /\ sent[i].node.path = RootPath
          /\ sent[i].node.children_count = 2
    /\ Last(sent).progress.visited_entries = 7

(***************************************************************************)
(* The store: what removes a node.                                         *)
(***************************************************************************)
\* A step in which prune_subtree was called: by the test of the store, or by
\* start_scan_at; active_scan_root' holds its root.
PruneStep ==
    \/ harness = "store" /\ appPc' = "pruned"
    \/ harness = "app" /\ appPc = "start_scan_at" /\ appPc' = "idle"

\* C26: a key leaves `nodes` only in a call of prune_subtree(R) where R is
\* the key or an ancestor of it; applying a scan event removes no key from
\* `nodes` nor from `children`; prune_subtree(R) leaves every node that is
\* not R nor beneath R in `nodes`, with the value it had.
NodesLeaveByPruneOnly ==
    [][/\ \A p \in DOMAIN nodes \ DOMAIN nodes' :
             PruneStep /\ IsPrefix(active_scan_root'.val, p)
       /\ Len(received') = Len(received) + 1
             => /\ DOMAIN nodes \subseteq DOMAIN nodes'
                /\ DOMAIN children \subseteq DOMAIN children'
       /\ PruneStep
             => \A p \in DOMAIN nodes :
                   ~IsPrefix(active_scan_root'.val, p)
                       => p \in DOMAIN nodes' /\ nodes'[p] = nodes[p]]_vars

\* The App rescanned from r/vd: the node of r, outside the pruned subtree,
\* is still in the store while the events of the second scan are applied.
NodesLeaveByPruneOnlyWitness ==
    /\ harness = "app"
    /\ session = 2
    /\ options.root = RootPath \o << <<"v", "d">> >>
    /\ Len(received) >= 2
    /\ RootPath \in DOMAIN nodes
    /\ options.root \in DOMAIN nodes

(***************************************************************************)
(* The final NodeUpdated of a directory.                                   *)
(***************************************************************************)
\* The directories whose provisional NodeUpdated was enqueued and whose
\* traversal was started: the scan root (scan_dir sends its provisional
\* update itself), and every directory with an entry counted in it.
StartedDirs ==
    { q \in { e.node.path : e \in { x \in Range(OfType(sent, "NodeUpdated")) :
                                        ~x.node.is_complete } } :
          q = options.root \/ \E v \in Range(visited) : parent(v.path) = q }

FinalPaths ==
    { e.node.path : e \in { x \in Range(OfType(sent, "NodeUpdated")) :
                               x.node.is_complete } }

\* C27: once run_scan has returned, with the receiver connected and no
\* NodeUpdated dropped for a full channel, every directory whose traversal
\* was started has its final NodeUpdated (complete = true) in the stream,
\* whether its entries were all processed or the scan was cancelled inside
\* it.
FinalUpdateEvenIfCancelled ==
    (pc = "exited" /\ rxConnected /\ state.dropped_node_updates = 0)
        => StartedDirs \subseteq FinalPaths

\* What holds of C27: the same for a scan that was not cancelled.
FinalUpdateUnlessCancelled ==
    (pc = "exited" /\ rxConnected /\ state.dropped_node_updates = 0
        /\ result # "cancelled")
        => StartedDirs \subseteq FinalPaths

(***************************************************************************)
(* The pending slot.                                                       *)
(***************************************************************************)
\* C28: whenever the pending slot is occupied it holds the newest snapshot
\* produced so far: no Progress that counts more entries than the pending
\* one has been enqueued.
PendingIsNewest ==
    state.pending_progress.some =>
        \A e \in Range(OfType(sent, "Progress")) :
            e.progress.visited_entries <= state.pending_progress.val.visited_entries

(***************************************************************************)
(* The receiver is dropped during a scan.                                  *)
(***************************************************************************)
\* A step of the scanner that calls try_send: the flush of the pending slot
\* or the try_send of the first event still to be sent.
SendAttempt ==
    /\ outbox # <<>>
    /\ <<state, outbox, sendPc, chan>>' # <<state, outbox, sendPc, chan>>
    /\ rxConnected' = rxConnected
    /\ received' = received

\* The try_send of the event whose send flushed the pending slot into the
\* dropped channel; it ends that send.
LastAttempt == sendPc = "try" /\ outbox' = <<>> /\ state' = state

Noticed == [][(~rxConnected /\ SendAttempt) => state'.channel_closed]_vars

AtMostOneAttemptAfter ==
    [][(state.channel_closed /\ SendAttempt) => LastAttempt]_vars

\* The scanner takes a step of the traversal that starts with should_cancel():
\* scan_entry, the entry of scan_dir or an iteration of its first loop.  The
\* tail of scan_dir (ScanDirFinish) holds no such check.
CancellationCheck ==
    /\ outbox = <<>>
    /\ \/ pc = "scan_entry"
       \/ pc = "scan_dir" /\ (Top.phase = "enter" \/ EntriesLeft(Top) \/ Top.pending_dirs # <<>>)
    /\ <<pc, stack>>' # <<pc, stack>>

NoVisitAfter ==
    /\ [][(state.channel_closed /\ CancellationCheck) =>
            (result' = "cancelled" /\ pc' = "finish" /\ visited' = visited)]_vars
    /\ [][(state.channel_closed /\ result = "cancelled") => visited' = visited]_vars

ReturnsUnblocked == ~rxConnected ~> pc = "exited"

\* C29 (as stated): once the scanner has noticed the dropped receiver it calls
\* try_send no more.
NoAttemptAfterNotice == [][state.channel_closed => ~SendAttempt]_vars

\* C29 (amended): the first try_send after the receiver was dropped sets
\* channel_closed; after that the scanner calls try_send at most once more,
\* for the event of the send whose flush of the pending slot noticed the drop;
\* its next should_cancel() ends the traversal and no entry is visited from
\* then on; and it returns.
ReceiverDropNoticed ==
    /\ Noticed
    /\ AtMostOneAttemptAfter
    /\ NoVisitAfter
    /\ ReturnsUnblocked

\* The receiver was dropped after the channel had been full; the scanner
\* noticed, cut the traversal short and returned.
ReceiverDropNoticedWitness ==
    /\ ~rxConnected
    /\ state.channel_closed
    /\ state.deferred_progress_updates + state.dropped_node_updates > 0
    /\ result = "cancelled"
    /\ Len(visited) < Cardinality(DOMAIN Fs)
    /\ pc = "exited"

(***************************************************************************)
(* drain_scan_events.                                                      *)
(***************************************************************************)
\* drain_scan_events applies an event.
DrainApplies == harness = "app" /\ Len(received') = Len(received) + 1

\* drain_scan_events returns.
DrainReturns == appPc \in {"draining", "drain_stop"} /\ appPc' = "idle"

\* C30: one call of drain_scan_events applies at most MAX_EVENTS_PER_TICK
\* events (processed counts the events of the call); on an empty channel it
\* has a step to take at once, which is to return; it applies no event after
\* a terminal one; and the call that applied a terminal event returns with no
\* scanner session and a terminal scan state.
DrainIsBounded ==
    /\ [][DrainApplies =>
            /\ processed' = (IF appPc = "idle" THEN 0 ELSE processed) + 1
            /\ processed' <= MaxEventsPerTick]_vars
    /\ []((appPc = "draining" /\ chan = <<>>) => ENABLED DrainEnd)
    /\ []((appPc = "draining" /\ processed >= MaxEventsPerTick) => ~ENABLED DrainRecv)
    /\ [][DrainApplies => (received = <<>> \/ ~IsTerminal(Last(received)))]_vars
    /\ [][(DrainApplies /\ IsTerminal(Last(received'))) => appPc' = "drain_stop"]_vars
    /\ [][(DrainReturns /\ appPc = "drain_stop") =>
            (~scanner' /\ scan_state'.tag \in TerminalTypes)]_vars
    /\ [][(DrainReturns /\ appPc = "draining") =>
            (scanner' /\ scan_state'.tag = "Scanning")]_vars

\* A call of drain_scan_events, not the first of the session, has applied a
\* terminal event and returned.
DrainIsBoundedWitness ==
    /\ harness = "app"
    /\ appPc = "idle"
    /\ Len(received) > MaxEventsPerTick
    /\ IsTerminal(Last(received))
    /\ processed >= 1
    /\ ~scanner
    /\ scan_state.tag \in TerminalTypes

(***************************************************************************)
(* The children lists.                                                     *)
(***************************************************************************)
\* upsert_node has returned: called on any node of the bare store, or by
\* drain_scan_events for a NodeUpdated.
Upserted ==
    \/ harness = "store" /\ appPc' = "upserted"
    \/ DrainApplies /\ Last(received').type = "NodeUpdated"

\* C31: no path occurs twice in a children list, every listed path is listed
\* under its immediate parent, and an upsert_node for a path that is a node
\* already leaves every children list as it was; the node it was given is
\* the one stored.
ChildrenListsExact ==
    /\ [](\A k \in DOMAIN children :
            \A i, j \in DOMAIN children[k] :
                /\ children[k][i] = children[k][j] => i = j
                /\ parent(children[k][i]) = k)
    /\ [][(Upserted /\ DOMAIN nodes' = DOMAIN nodes) => children' = children]_vars
    /\ [][(DrainApplies /\ Last(received').type = "NodeUpdated") =>
            nodes'[Last(received').node.path] = Last(received').node]_vars

\* The App has applied two NodeUpdated events for one path, which is listed
\* under its parent, and a child of the root is listed too.
ChildrenListsExactWitness ==
    /\ harness = "app"
    /\ \E i, j \in DOMAIN received :
          /\ i < j
          /\ received[i].type = "NodeUpdated" /\ received[j].type = "NodeUpdated"
          /\ received[i].node.path = received[j].node.path
          /\ received[i].node # received[j].node
          /\ nodes[received[j].node.path] = received[j].node
          /\ received[j].node.path \in Range(children[parent(received[j].node.path)])
    /\ \E k \in DOMAIN children : k # <<>> /\ children[k] # <<>>

(***************************************************************************)
(* The selection.                                                          *)
(***************************************************************************)
\* C32: between two handlers of the App, selected_index is less than the
\* number of visible children of the display root, or 0 when there is none.
SelectionInBounds ==
    appPc = "idle" =>
        IF visible_node_paths = <<>> THEN selected_index = 0
        ELSE selected_index < Len(visible_node_paths)

\* Two rows are listed, the second was selected, and the filter that was
\* typed since leaves one row: the selection is on it.
SelectionInBoundsWitness ==
    /\ appPc = "idle"
    /\ filter # <<>>
    /\ Len(visible_paths(Store(nodes, children), current_root, <<>>)) = 2
    /\ Len(visible_node_paths) = 1
    /\ selected_index = 0
    /\ scan_state.tag = "Complete"

(***************************************************************************)
(* Final updates and cancellation.                                         *)
(***************************************************************************)
\* The paths of the directories (and of the symlinks to a directory that
\* were followed) with a NodeUpdated among `events` that has is_complete
\* true.
CompleteDirs(events) ==
    { e.node.path : e \in { x \in Range(OfType(events, "NodeUpdated")) :
          /\ x.node.is_complete
          /\ IsDirPath(x.node.path)
          /\ \/ x.node.kind = "dir"
             \/ x.node.kind = "symlink" /\ options.follow_symlinks } }

WarnedPaths == { e.path : e \in Range(OfType(generated, "Warning")) }

\* The entry `e` of the directory at `path` has been dealt with: counted,
\* reported by a Warning (on the directory when the entry itself cannot be
\* read), or left out as a directory of another filesystem.
Processed(path, e) ==
    IF e.err THEN path \in WarnedPaths
    ELSE LET child == Append(path, e.name)
             resolved == IF Meta(e.ino).kind = "symlink" /\ options.follow_symlinks
                         THEN metadata(e.ino) ELSE e.ino
         IN  \/ child \in VisitedPaths
             \/ child \in WarnedPaths
             \/ /\ options.one_file_system
                /\ resolved # 0
                /\ Meta(resolved).kind = "dir"
                /\ Meta(resolved).dev # Meta(ScanRootIno).dev

\* The scanner takes the step that returns ScanControl::Cancelled.
Interrupted == result # "cancelled" /\ result' = "cancelled"

\* C33: a directory with a NodeUpdated enqueued that has is_complete true is
\* not being traversed any more, has been counted, and each of its entries
\* has been processed (or the directory could not be read and has a Warning);
\* the step that returns Cancelled sends nothing for the directories being
\* traversed, which have no such NodeUpdated, and no NodeUpdated is enqueued
\* after it.
CompleteMeansTraversed ==
    /\ [](\A p \in CompleteDirs(sent) :
            /\ \A i \in DOMAIN stack : stack[i].path # p
            /\ p \in VisitedPaths
            /\ \/ p \in WarnedPaths
               \/ LET dir == Meta(metadata(InoAt(p)))
                  IN  \A i \in DOMAIN dir.entries : Processed(p, dir.entries[i]))
    /\ [][Interrupted =>
            /\ outbox' = <<>>
            /\ \A i \in DOMAIN stack : stack[i].path \notin CompleteDirs(sent)]_vars
    /\ [][(result = "cancelled" /\ session' = session) =>
            OfType(sent', "NodeUpdated") = OfType(sent, "NodeUpdated")]_vars

\* A cancelled scan has returned: the root was announced, entries below it
\* were counted, a file of the root has its update, and neither the root nor
\* any other directory has a final update.
CompleteMeansTraversedWitness ==
    /\ result = "cancelled"
    /\ pc = "exited"
    /\ rxConnected
    /\ Len(visited) >= 2
    /\ options.root \in UpdatedPaths
    /\ \E e \in Range(OfType(sent, "NodeUpdated")) : e.node.kind = "file"
    /\ CompleteDirs(sent) = {}

(***************************************************************************)
(* Superseded sessions.                                                    *)
(***************************************************************************)
\* C34: the step of start_scan_at that starts a session finds the thread of
\* the old one gone and leaves an empty channel and nothing applied; and in
\* the App, the only scanner thread is the one of the newest session and the
\* events applied since the restart, followed by those queued, are the
\* events that thread has enqueued.
OnlyNewestSessionApplied ==
    /\ [][session' # session =>
            alive = {} /\ chan' = <<>> /\ received' = <<>> /\ sent' = <<>>]_vars
    /\ [](harness = "app" =>
            /\ alive \subseteq {session}
            /\ IsPrefix(received, sent)
            /\ (scanner /\ appPc # "start_scan_at") => received \o chan = sent)

\* A second session runs: the App has applied its Reset and a NodeUpdated,
\* and an event of it is queued.
OnlyNewestSessionAppliedWitness ==
    /\ harness = "app"
    /\ session >= 2
    /\ scanner
    /\ Len(received) >= 2
    /\ received[1].type = "Reset"
    /\ nodes # <<>>
    /\ chan # <<>>

(***************************************************************************)
(* Rows that stay in the loading state.                                    *)
(***************************************************************************)
\* C35: once the App has applied the Complete of a scan, every node stored
\* at or under the root of that scan has is_complete true.
NoRowLoadingAfterComplete ==
    (harness = "app" /\ scan_state.tag = "Complete") =>
        \A p \in DOMAIN nodes :
            in_subtree(p, options.root) => nodes[p].is_complete

(***************************************************************************)
(* The session, the scan state and the active root.                        *)
(***************************************************************************)
\* C36: between two handlers of the App, and between two turns of the loop
\* of drain_scan_events, self.scanner holds a session exactly when
\* scan_state is Scanning, and active_scan_root is set exactly when
\* scan_state is Scanning.
SessionIffScanning ==
    (harness = "app" /\ appPc \in {"idle", "draining"}) =>
        /\ scanner <=> scan_state.tag = "Scanning"
        /\ active_scan_root.some <=> scan_state.tag = "Scanning"

\* The second scan has ended and the App has applied its terminal event.
SessionIffScanningWitness ==
    /\ harness = "app"
    /\ appPc = "idle"
    /\ session >= 2
    /\ received # <<>>
    /\ IsTerminal(Last(received))
    /\ scan_state.tag \in TerminalTypes
    /\ ~scanner
    /\ ~active_scan_root.some

(***************************************************************************)
(* The counters of Complete and the aggregate of the root.                 *)
(***************************************************************************)
\* C37: when a scan of a directory root ends with Complete, the progress of
\* Complete has as visited_entries the number of entries whose sizes are in
\* the aggregate of the root (the root and every counted descendant; on a
\* tree where nothing is skipped, every entry of the tree), and as
\* apparent_bytes_seen and allocated_bytes_seen the sums of their sizes,
\* which are the totals of the final NodeUpdated of the root.
CompleteCountsContributors ==
    (ScanOver /\ Last(sent).type = "Complete" /\ IsDirPath(options.root)) =>
        LET progress == Last(sent).progress
            finals == SelectSeq(sent, LAMBDA e : /\ e.type = "NodeUpdated"
                                                 /\ e.node.path = options.root
                                                 /\ e.node.is_complete)
        IN  /\ progress.visited_entries = Len(visited)
            /\ progress.apparent_bytes_seen = Saturated(SumApparent(visited))
            /\ progress.allocated_bytes_seen = Saturated(SumAllocated(visited))
            /\ (fsys \in PlainTrees /\ options.root = RootPath)
                  => progress.visited_entries = Len(Fs)
            /\ \A i \in DOMAIN finals :
                  /\ progress.apparent_bytes_seen = finals[i].node.apparent_bytes
                  /\ progress.allocated_bytes_seen = finals[i].node.allocated_bytes

\* A finished scan of a tree with a directory under the root, its totals
\* below u64::MAX: the root reported its totals and Complete carries them.
CompleteCountsContributorsWitness ==
    /\ ScanOver
    /\ Last(sent).type = "Complete"
    /\ options.root = RootPath
    /\ IsDirPath(RootPath)
    /\ RootFinals(sent) # <<>>
    /\ Len(visited) >= 3
    /\ \E i \in DOMAIN visited : Len(visited[i].path) > Len(RootPath) + 1
    /\ SumApparent(visited) < U64Max
    /\ SumApparent(visited) > 0
    /\ Last(sent).progress.visited_entries = Len(visited)
    /\ Last(sent).progress.apparent_bytes_seen
           = Last(RootFinals(sent)).node.apparent_bytes

(***************************************************************************)
(* Symlinks that resolve to a canonical directory recorded before.         *)
(***************************************************************************)
\* The entry at `path` is a symlink that resolves to a directory.
IsSymlinkDirPath(path) ==
    /\ InoAt(path) # 0
    /\ Meta(InoAt(path)).kind = "symlink"
    /\ metadata(InoAt(path)) # 0
    /\ Meta(metadata(InoAt(path))).kind = "dir"

CyclePaths(events) ==
    { CycleWarnings(events)[i].path : i \in DOMAIN CycleWarnings(events) }

\* The counted entries of `log` at or below `path`.
CountedBelow(log, path) == SelectSeq(log, LAMBDA v : in_subtree(v.path, path))

\* C38: with follow_symlinks on, no two symlinks that resolve to the same
\* canonical directory are both traversed; a 'symlink cycle' Warning is for
\* a symlink whose canonical directory is recorded, there is one Warning for
\* it and nothing at or below it is counted; and once the scan is over every
\* symlink to a directory met in a traversed directory is either traversed
\* or warned about, never both, while the final NodeUpdated of each
\* directory has as totals the sizes of the entries counted at or below it
\* and as children_count the number of entries counted right under it.
RepeatedCanonicalSkipped ==
    options.follow_symlinks =>
        /\ \A i, j \in DOMAIN visited :
              (/\ IsSymlinkDirPath(visited[i].path)
               /\ IsSymlinkDirPath(visited[j].path)
               /\ metadata(InoAt(visited[i].path))
                      = metadata(InoAt(visited[j].path))) => i = j
        /\ \A i \in DOMAIN CycleWarnings(generated) :
              LET w == CycleWarnings(generated)[i]
              IN  /\ IsSymlinkDirPath(w.path)
                  /\ metadata(InoAt(w.path)) \in state.visited_symlink_dirs
                  /\ CountedBelow(visited, w.path) = <<>>
                  /\ \A j \in DOMAIN CycleWarnings(generated) :
                        CycleWarnings(generated)[j].path = w.path => i = j
        /\ (ScanOver /\ Last(sent).type = "Complete") =>
              /\ \A i \in DOMAIN visited :
                    LET path == visited[i].path
                        dir == metadata(InoAt(path))
                    IN  (dir # 0 /\ Meta(dir).kind = "dir" /\ ~Meta(dir).readErr) =>
                          \A k \in DOMAIN Meta(dir).entries :
                             LET e == Meta(dir).entries[k]
                                 child == Append(path, e.name)
                             IN  (~e.err /\ IsSymlinkDirPath(child)) =>
                                    (CountedBelow(visited, child) # <<>>)
                                       # (child \in CyclePaths(sent))
              /\ \A i \in DOMAIN sent :
                    (sent[i].type = "NodeUpdated" /\ sent[i].node.is_complete) =>
                       LET node == sent[i].node
                           below == CountedBelow(visited, node.path)
                       IN  /\ node.apparent_bytes = Saturated(SumApparent(below))
                           /\ node.allocated_bytes = Saturated(SumAllocated(below))
                           /\ node.kind \in {"dir", "symlink"} =>
                                 node.children_count =
                                    Len(SelectSeq(below, LAMBDA v :
                                            Len(v.path) = Len(node.path) + 1))

\* A finished scan that traversed one symlink to the directory d and warned
\* about a symlink inside d (a cycle) and about two symlinks beside d (no
\* cycle), with the final NodeUpdated of the root and of the traversed link.
RepeatedCanonicalSkippedWitness ==
    /\ options.follow_symlinks
    /\ ScanOver
    /\ Last(sent).type = "Complete"
    /\ \E i \in DOMAIN visited : IsSymlinkDirPath(visited[i].path)
    /\ \E p \in CyclePaths(sent) : InoAt(p) \in LinksBack
    /\ \E p \in CyclePaths(sent) : InoAt(p) \notin LinksBack
    /\ Len(CycleWarnings(sent)) = 3
    /\ RootFinals(sent) # <<>>
    /\ Last(RootFinals(sent)).node.children_count = 1
    /\ \E i \in DOMAIN sent :
          /\ sent[i].type = "NodeUpdated"
          /\ sent[i].node.is_complete
          /\ IsSymlinkDirPath(sent[i].node.path)

(***************************************************************************)
(* The counters of the backpressure Warning.                               *)
(***************************************************************************)
\* send_noncritical is done with an event of type `type`, the receiver being
\* connected: the event leaves the sends still to be done.
NoncriticalSendDone(type) ==
    /\ rxConnected
    /\ session' = session
    /\ outbox # <<>>
    /\ ~Head(outbox).critical
    /\ Head(outbox).event.type = type
    /\ outbox' = Tail(outbox)

\* A NodeUpdated is enqueued, or dropped and counted.
NodeUpdatedAccounted ==
    NoncriticalSendDone("NodeUpdated") =>
        \/ /\ sent' = Append(sent, Head(outbox).event)
           /\ state' = state
        \/ /\ sent' = sent
           /\ state'.dropped_node_updates = state.dropped_node_updates + 1
           /\ state'.deferred_progress_updates = state.deferred_progress_updates

\* A Progress is enqueued, or deferred and counted, and counted as coalesced
\* when it takes the place of a deferred one.
ProgressAccounted ==
    NoncriticalSendDone("Progress") =>
        \/ /\ sent' = Append(sent, Head(outbox).event)
           /\ state' = state
        \/ /\ sent' = sent
           /\ state'.pending_progress = SomeProgress(Head(outbox).event.progress)
           /\ state'.deferred_progress_updates = state.deferred_progress_updates + 1
           /\ state'.coalesced_progress_updates =
                 state.coalesced_progress_updates
                    + (IF state.pending_progress.some THEN 1 ELSE 0)
           /\ state'.dropped_node_updates = state.dropped_node_updates

\* The counters grow in no other step.
CountersGrowOnFullOnly ==
    /\ state'.dropped_node_updates > state.dropped_node_updates
          => NoncriticalSendDone("NodeUpdated") /\ sent' = sent
    /\ \/ state'.deferred_progress_updates > state.deferred_progress_updates
       \/ state'.coalesced_progress_updates > state.coalesced_progress_updates
          => NoncriticalSendDone("Progress") /\ sent' = sent

\* The backpressure Warning, when it is generated, names the counters as
\* they are.
WarningNamesCounters ==
    Len(BackpressureWarnings(generated')) > Len(BackpressureWarnings(generated)) =>
        LET named == Last(BackpressureWarnings(generated')).message
        IN  /\ named.dropped = state.dropped_node_updates
            /\ named.deferred = state.deferred_progress_updates
            /\ named.coalesced = state.coalesced_progress_updates
            /\ named.dropped > 0 \/ named.deferred > 0

\* C39: while the receiver is connected, every NodeUpdated that
\* send_noncritical is called with is enqueued or adds one to
\* dropped_node_updates, every Progress is enqueued or adds one to
\* deferred_progress_updates, the counters grow in no other way,
\* coalesced_progress_updates never exceeds deferred_progress_updates, and
\* the backpressure Warning names the values the counters have when it is
\* generated.
BackpressureAccounted ==
    /\ [][NodeUpdatedAccounted]_vars
    /\ [][ProgressAccounted]_vars
    /\ [][CountersGrowOnFullOnly]_vars
    /\ [][WarningNamesCounters]_vars
    /\ [](state.coalesced_progress_updates <= state.deferred_progress_updates)

\* The backpressure Warning has been enqueued after a NodeUpdated was dropped
\* and a deferred Progress was replaced by a newer one.
BackpressureAccountedWitness ==
    /\ rxConnected
    /\ BackpressureWarnings(sent) # <<>>
    /\ Last(BackpressureWarnings(sent)).message.dropped >= 1
    /\ Last(BackpressureWarnings(sent)).message.deferred >= 2
    /\ Last(BackpressureWarnings(sent)).message.coalesced >= 1

=============================================================================
